---- MODULE Spec2Model ----
(***************************************************************************)
(* Table Vision: the region store (core/coordinates.py TableCoordinates),  *)
(* the batch extraction workers (ui/main_window.py                         *)
(* BatchExtractionWorkerCustom, core/extractor.py BatchExtractionWorker,   *)
(* ui/main_window.py ExtractionWorker) and the MainWindow handlers that    *)
(* reconcile their notifications into the store.                           *)
(*                                                                         *)
(* Threads.  The UI thread runs one handler at a time; every handler is    *)
(* one action.  Each worker is a QThread; its signals are queued to the    *)
(* UI thread's event loop, modelled by the FIFO `events`.                  *)
(*                                                                         *)
(* Encodings.  A Python dict of a region is a record with the fields       *)
(* id, page, x1, y1, x2, y2, width, height, user_created; a region the    *)
(* user draws also has accuracy, in percent (whitespace, and the accuracy  *)
(* of a detected table, are passed through untouched by every operation    *)
(* modelled and are left out).  Floats are integers: a coordinate counts quarters   *)
(* of a PDF point (Unit), which makes the halves and quarters that the      *)
(* viewer's conversions produce at the zooms tried exact.  `None` for a     *)
(* path is 0.                                                               *)
(* Payload ids that are strings in the tests ('temp1') or missing are      *)
(* negative integers: add_coordinate overwrites the field in every case.   *)
(***************************************************************************)
EXTENDS Integers, Sequences, FiniteSets, TLC

\* ---------------------------------------------------------------- bounds
\* pages of every document
NumPages == 2
\* Spec: jobs started, documents opened, user gestures
MaxJobs == 2
MaxLoads == 1
MaxUserOps == 2
\* values of the batch size spin box that are tried
MaxBatchSize == 2
\* SpecAll: documents opened, jobs started
MaxSessions == 2
MaxJobsAll == 2
\* SpecStore: calls of the store's methods
MaxStoreOps == 4
\* SpecRun: jobs started
MaxRuns == 1

\* ------------------------------------------------------ program constants
FirstUserId == 1
FirstCamelotId == 1000
\* the page is rendered at twice its size
RenderFactor == 2
\* a drawn rectangle must be more than 10 pixels wide and high
MinDrawSize == 10
\* mouseMoveEvent: the least width and height a resize leaves, in PDF points
MinResizeSize == 10

NoPath == 0
NoId == 0 - 1
TempId == 0 - 2

Pages1 == 1..NumPages
Pages0 == 0..(NumPages - 1)

\* table._bbox values the extraction service can report, (x1, y1, x2, y2)
BboxA == <<1, 1, 3, 2>>
BboxB == <<2, 3, 5, 5>>
TableLists == {<<>>, <<BboxA>>}

\* rectangles a user can draw, in PDF space (x1, y1, x2, y2), as dragged
UserRects == {<<6, 7, 4, 4>>}

\* pointer deltas of a drag, in PDF units (delta_pdf_x, delta_pdf_y)
MoveDeltas == {<<1, 0 - 1>>}

\* values typed into the editor's spin boxes (x1, y1, x2, y2)
EditRects == {<<5, 6, 2, 3>>}

\* ids a delete request can carry
MaxId == 3

\* a coordinate counts 1/Unit of a PDF point
Unit == 4
\* the height of every page, in PDF points
PageHeight == 792
\* values of the zoom slider, in percent
Zooms == {50, 100, 200}
\* values (self.width() - pixmap.width()) // 2 and the like take
Offsets == {0, 7}
\* pointer positions of the draw gestures, in pixels
Positions == {<<x, y>> : x \in {100, 110, 111}, y \in {200, 209, 212}}
\* SpecGesture: mouse presses
MaxGestures == 2
\* SpecDrag: presses and pointer moves
MaxDragOps == 5
\* regions drawn before they are dragged, in coordinate units: (100, 100, 200,
\* 150) points, and one two points from the left edge of the page
DragRects == {<<400, 400, 800, 600>>, <<8, 400, 240, 600>>}
\* pointer positions of the drags, in pixels: inside the first and the second
\* region at zoom 100, on the left and bottom right handles of the first, and
\* two places the pointer is dragged to
DragPositions ==
    {<<300, 1333>>, <<60, 1333>>, <<200, 1333>>, <<399, 1383>>,
     <<40, 1333>>, <<390, 1300>>}
\* rectangles displayed (x1, y1, x2, y2), in coordinate units: (100, 100, 300,
\* 200) points, a small one at the origin, one off the point grid, one at the
\* top of the page
GeometryRects ==
    {<<400, 400, 1200, 800>>, <<0, 0, 40, 40>>, <<401, 403, 1203, 801>>,
     <<200, 2400, 2000, 3168>>}

\* SpecRecords: calls of the store's methods and of a caller's changes
MaxRecordOps == 4

\* payloads of add_coordinate: bounds in order with their width and height,
\* bounds reversed, and a width and height that are not those of the bounds
RecordPayloads ==
    {[id |-> 0 - 1, page |-> 0, x1 |-> 1, y1 |-> 1, x2 |-> 3, y2 |-> 2,
      width |-> 2, height |-> 1, user_created |-> FALSE],
     [id |-> 0 - 1, page |-> 0, x1 |-> 3, y1 |-> 2, x2 |-> 1, y2 |-> 1,
      width |-> 2, height |-> 1, user_created |-> TRUE],
     [id |-> 0 - 1, page |-> 0, x1 |-> 1, y1 |-> 1, x2 |-> 3, y2 |-> 2,
      width |-> 5, height |-> 5, user_created |-> TRUE]}

\* updates of update_coordinate: the dict on_rectangle_moved builds, one bound
\* alone, and bounds reversed
RecordUpdates ==
    {[x1 |-> 2, y1 |-> 2, x2 |-> 4, y2 |-> 3, width |-> 2, height |-> 1],
     [x2 |-> 5],
     [x1 |-> 4, x2 |-> 2]}

Min(a, b) == IF a < b THEN a ELSE b
Max(a, b) == IF a > b THEN a ELSE b
Abs(a) == IF a < 0 THEN 0 - a ELSE a

\* Program state:
\*   coordinates, next_id        MainWindow.coordinates_manager (TableCoordinates)
\*   all_extracted_coordinates   MainWindow.all_extracted_coordinates
\*   viewer_coordinates          MainWindow.viewer.coordinates
\*   current_pdf_path, total_pages
\*   custom_batch_worker, batch_worker, extraction_worker   the three QThreads
\*   events                      signals queued to the UI thread, in order
\*   ui_pc                       where the UI thread is inside stop_extraction
\* History, read by the properties only:
\*   counters      how many documents, jobs and gestures there have been
\*   last          the last handler the UI thread ran
\*   ledger        per page, the regions last detected and not deleted since
\*                 (detected) and the regions drawn and not deleted since
\*                 (drawn); of the drawn ones, those drawn after the first
\*                 job was started (late); the regions deleted during a job
\*                 that had already reconciled their page (deleted); the
\*                 machine regions moved, resized or edited and not deleted
\*                 since, as edited (edited)
\*   returned_ids  per add_coordinate call, the id given and the id returned
\*                 (SpecStore)
\* A caller of the store:
\*   returned_list the list a caller got from get_all_coordinates: a list of
\*                 references to dicts, a reference being the id of the dict in
\*                 the store (0: a dict that is not the store's)
\* The viewer's label:
\*   pdf_label     InteractivePDFLabel: page_pixmap, scale_factor, the offsets
\*                 that centre the pixmap, the draw gesture in progress
VARIABLES coordinates, next_id, all_extracted_coordinates, viewer_coordinates,
          current_pdf_path, total_pages,
          custom_batch_worker, batch_worker, extraction_worker,
          events, ui_pc, counters, last, ledger, current_session, returned_ids,
          returned_list, pdf_label

vars == <<coordinates, next_id, all_extracted_coordinates, viewer_coordinates,
          current_pdf_path, total_pages,
          custom_batch_worker, batch_worker, extraction_worker,
          events, ui_pc, counters, last, ledger, current_session, returned_ids,
          returned_list, pdf_label>>

\* ------------------------------------------------------------ the store

\* add_coordinate as it would be if it kept an integer id the payload carries
AddCoordinateKeepingId(store, coordinate) ==
    LET new_id == IF coordinate.id > 0 THEN coordinate.id ELSE store.next_id IN
    [coordinates |-> Append(store.coordinates, [coordinate EXCEPT !.id = new_id]),
     next_id |-> store.next_id + 1,
     id |-> new_id]

\* TableCoordinates.add_coordinate: copy, overwrite id with next_id, default
\* user_created, append, increment next_id, return the id.
AddCoordinate(store, coordinate) ==
    [coordinates |-> Append(store.coordinates,
                            [coordinate EXCEPT !.id = store.next_id]),
     next_id |-> store.next_id + 1,
     id |-> store.next_id]

RECURSIVE FirstIndexOf(_, _, _)
FirstIndexOf(cs, coord_id, i) ==
    IF i > Len(cs) THEN 0
    ELSE IF cs[i].id = coord_id THEN i
    ELSE FirstIndexOf(cs, coord_id, i + 1)

DeleteAt(cs, i) == SubSeq(cs, 1, i - 1) \o SubSeq(cs, i + 1, Len(cs))

\* remove_coordinate as it would be if an unknown id removed the last entry
RemoveCoordinateOrLast(store, coord_id) ==
    LET i == FirstIndexOf(store.coordinates, coord_id, 1) IN
    [coordinates |-> IF i = 0
                     THEN SubSeq(store.coordinates, 1, Len(store.coordinates) - 1)
                     ELSE DeleteAt(store.coordinates, i),
     next_id |-> store.next_id,
     ok |-> i # 0]

\* TableCoordinates.remove_coordinate: delete the first entry with the id.
RemoveCoordinate(store, coord_id) ==
    LET i == FirstIndexOf(store.coordinates, coord_id, 1) IN
    [coordinates |-> IF i = 0 THEN store.coordinates
                     ELSE DeleteAt(store.coordinates, i),
     next_id |-> store.next_id,
     ok |-> i # 0]

\* dict.update(updates): the fields of updates replace or extend the record's
Merge(c, updates) ==
    [f \in (DOMAIN c) \cup (DOMAIN updates) |->
        IF f \in DOMAIN updates THEN updates[f] ELSE c[f]]

\* TableCoordinates.update_coordinate: coord.update(updates) on the first
\* entry with the id.
UpdateCoordinateInStore(store, coord_id, updates) ==
    LET i == FirstIndexOf(store.coordinates, coord_id, 1) IN
    [coordinates |-> IF i = 0 THEN store.coordinates
                     ELSE [store.coordinates EXCEPT ![i] = Merge(@, updates)],
     next_id |-> store.next_id,
     ok |-> i # 0]

\* TableCoordinates.get_coordinates_for_page
GetCoordinatesForPage(cs, page_num) ==
    SelectSeq(cs, LAMBDA c : c.page = page_num)

\* TableCoordinates.clear_all
ClearAll == [coordinates |-> <<>>, next_id |-> FirstUserId]

\* create_user_coordinate as it would be if it gave the region no accuracy
UserCoordinateUnrated(page, x1, y1, x2, y2) ==
    [id |-> NoId, page |-> page,
     x1 |-> Min(x1, x2), y1 |-> Min(y1, y2),
     x2 |-> Max(x1, x2), y2 |-> Max(y1, y2),
     width |-> Abs(x2 - x1), height |-> Abs(y2 - y1),
     user_created |-> TRUE, accuracy |-> 0]

\* TableCoordinates.create_user_coordinate
UserCoordinate(page, x1, y1, x2, y2) ==
    [id |-> NoId, page |-> page,
     x1 |-> Min(x1, x2), y1 |-> Min(y1, y2),
     x2 |-> Max(x1, x2), y2 |-> Max(y1, y2),
     width |-> Abs(x2 - x1), height |-> Abs(y2 - y1),
     user_created |-> TRUE, accuracy |-> 100]

CreateUserCoordinateInStore(store, page, x1, y1, x2, y2) ==
    AddCoordinate(store, UserCoordinate(page, x1, y1, x2, y2))

Store == [coordinates |-> coordinates, next_id |-> next_id]

Ids(cs) == {cs[i].id : i \in 1..Len(cs)}


Rect(c) == <<c.x1, c.y1, c.x2, c.y2>>

\* --------------------------------------------------- the extraction workers

\* BatchExtractionWorkerCustom._extract_coordinates_for_page and
\* BatchExtractionWorker._extract_coordinates_for_page: one dict per table of
\* the page, ids from _global_id_counter, page converted to 0-based.
RECURSIVE ExtractCoordinatesForPage(_, _, _)
ExtractCoordinatesForPage(tables, page_num, counter) ==
    IF tables = <<>> THEN <<>>
    ELSE LET bbox == Head(tables) IN
         <<[id |-> counter, page |-> page_num - 1,
            x1 |-> bbox[1], y1 |-> bbox[2], x2 |-> bbox[3], y2 |-> bbox[4],
            width |-> bbox[3] - bbox[1], height |-> bbox[4] - bbox[2],
            user_created |-> FALSE]>>
         \o ExtractCoordinatesForPage(Tail(tables), page_num, counter + 1)

\* len(fitz.open(pdf_path)): every document of the model has NumPages pages
PageCount(pdf_path) == NumPages

\* a batch worker that was never constructed (self.custom_batch_worker = None).
\* end_page 0 is None; global_id_counter 0 is the attribute not yet set.
\* History: job (the number of the job, in order of starting), pre (the store
\* when the job was started), pre_ops (the gestures made before that), emitted
\* (the pages with a page_completed), outcome, quiet (no notification was
\* waiting to be handled when the job was started), stop_reconciled (the
\* pages whose page_completed had been handled when stop() was called),
\* requested (the calls of camelot.read_pdf in order: the first and the last
\* page of the chunk and whether the call returned), range (the start_page
\* and end_page the worker was constructed with). total_pages is the local
\* variable of run(), 0 before len(doc) was read. progress holds the
\* arguments of the progress_updated notifications emitted, in order.
NoWorker ==
    [exists |-> FALSE, running |-> FALSE, pc |-> "none", pdf_path |-> NoPath,
     batch_size |-> 0, start_page |-> 0, end_page |-> 0, should_stop |-> FALSE,
     all_coordinates |-> <<>>, global_id_counter |-> 0,
     current_page |-> 0, batch_end |-> 0, page_num |-> 0, tables |-> <<>>,
     outcome |-> "none", job |-> 0, pre |-> <<>>, pre_ops |-> 0,
     emitted |-> {}, quiet |-> TRUE, stop_reconciled |-> {},
     requested |-> <<>>, range |-> <<0, 0>>, total_pages |-> 0,
     progress |-> <<>>]

\* a worker constructed with the stop flag of the range worker it replaces
NewWorkerKeepingStop(pdf_path, batch_size, start_page, end_page) ==
    [NoWorker EXCEPT !.exists = TRUE, !.running = TRUE, !.pc = "start",
                     !.pdf_path = pdf_path, !.batch_size = batch_size,
                     !.start_page = start_page, !.end_page = end_page,
                     !.should_stop = custom_batch_worker.should_stop,
                     !.outcome = "running", !.job = counters.jobs + 1,
                     !.pre = coordinates, !.pre_ops = counters.user_ops,
                     !.quiet = (events = <<>>),
                     !.range = <<start_page, end_page>>]

\* BatchExtractionWorkerCustom.__init__ / BatchExtractionWorker.__init__
\* followed by QThread.start(): the thread is running, run() not yet entered.
NewWorker(pdf_path, batch_size, start_page, end_page) ==
    [NoWorker EXCEPT !.exists = TRUE, !.running = TRUE, !.pc = "start",
                     !.pdf_path = pdf_path, !.batch_size = batch_size,
                     !.start_page = start_page, !.end_page = end_page,
                     !.outcome = "running", !.job = counters.jobs + 1,
                     !.pre = coordinates, !.pre_ops = counters.user_ops,
                     !.quiet = (events = <<>>),
                     !.range = <<start_page, end_page>>]

\* ExtractionWorker: never constructed
NoExtractionWorker ==
    [exists |-> FALSE, running |-> FALSE, pdf_path |-> NoPath, pages |-> 0,
     job |-> 0]

WorkerKinds == {"custom", "batch"}
W(k) == IF k = "custom" THEN custom_batch_worker ELSE batch_worker
SetW(k, w) ==
    /\ custom_batch_worker' = IF k = "custom" THEN w ELSE custom_batch_worker
    /\ batch_worker' = IF k = "batch" THEN w ELSE batch_worker

\* QThread.isRunning() behind the `worker and worker.isRunning()` guards
IsRunning(w) == w.exists /\ w.running

AnyRunning ==
    \/ IsRunning(custom_batch_worker)
    \/ IsRunning(batch_worker)
    \/ IsRunning(extraction_worker)

\* the UI thread is not inside QThread.wait() (MainWindow.stop_extraction)
UIReady == ui_pc = "idle"

\* signals queued to the UI thread; pdf_path and job are the emitting worker's
\* document and job number
PageCompletedMsgOfChunk(k, w, page_number, cs) ==
    [sig |-> "page_completed", worker |-> k, pdf_path |-> w.pdf_path, job |-> w.job,
     page_number |-> w.current_page, coordinates |-> cs]
PageCompletedMsg(k, w, page_number, cs) ==
    [sig |-> "page_completed", worker |-> k, pdf_path |-> w.pdf_path, job |-> w.job,
     page_number |-> page_number, coordinates |-> cs]
BatchCompletedMsg(k, w) ==
    [sig |-> "batch_completed", worker |-> k, pdf_path |-> w.pdf_path, job |-> w.job,
     page_number |-> 0, coordinates |-> w.all_coordinates]
ErrorOccurredMsg(k, w) ==
    [sig |-> "error_occurred", worker |-> k, pdf_path |-> w.pdf_path, job |-> w.job,
     page_number |-> 0, coordinates |-> <<>>]
FinishedMsg(w, cs) ==
    [sig |-> "finished", worker |-> "extraction", pdf_path |-> w.pdf_path, job |-> w.job,
     page_number |-> 0, coordinates |-> cs]
ErrorMsg(w) ==
    [sig |-> "error", worker |-> "extraction", pdf_path |-> w.pdf_path, job |-> w.job,
     page_number |-> 0, coordinates |-> <<>>]

\* run() up to the while loop, after fitz.open succeeded: the range
\* validation (custom worker) or current_page = 1 (batch worker)
Opened(k, w) ==
    LET total_p == PageCount(w.pdf_path)
        end_page == IF k = "custom"
                    THEN (IF w.end_page = 0 \/ w.end_page > total_p
                          THEN total_p ELSE w.end_page)
                    ELSE total_p
        start_page == IF k = "custom" THEN Max(w.start_page, 1) ELSE 1
    IN [w EXCEPT !.start_page = start_page, !.end_page = end_page,
                 !.current_page = start_page, !.total_pages = total_p,
                 !.pc = IF start_page > end_page THEN "invalid" ELSE "loop"]

\* batch_end = current_page + batch_size - 1, not bounded by end_page
BatchEndUnbounded(w) == w.current_page + w.batch_size - 1

\* batch_end = min(current_page + batch_size - 1, end_page)
BatchEnd(w) == Min(w.current_page + w.batch_size - 1, w.end_page)

\* while current_page <= end_page and not should_stop
LoopContinues(w) == w.current_page <= w.end_page /\ ~w.should_stop

\* camelot.read_pdf returned `tables` for the pages current_page..batch_end
ChunkRead(w, tables) ==
    [w EXCEPT !.pc = "pages", !.batch_end = BatchEnd(w),
              !.page_num = w.current_page, !.tables = tables,
              !.requested = Append(@, [first |-> w.current_page,
                                       last |-> BatchEnd(w), ok |-> TRUE])]

\* camelot.read_pdf raised and the job is over
ChunkFailedEndsJob(w) ==
    [w EXCEPT !.batch_end = BatchEnd(w), !.current_page = w.end_page + 1,
              !.requested = Append(@, [first |-> w.current_page,
                                       last |-> BatchEnd(w), ok |-> FALSE])]

\* camelot.read_pdf raised: the except clause, then current_page = batch_end + 1
ChunkFailed(w) ==
    [w EXCEPT !.batch_end = BatchEnd(w), !.current_page = BatchEnd(w) + 1,
              !.requested = Append(@, [first |-> w.current_page,
                                       last |-> BatchEnd(w), ok |-> FALSE])]

\* page_tables as it would be without the filter on t.page: for every page
\* of the chunk, the tables of the chunk's first page
PageTablesOfFirstPage(tables, page_num) ==
    tables[CHOOSE p \in DOMAIN tables : \A r \in DOMAIN tables : p <= r]

\* page_tables = [t for t in tables if t.page == page_num]
PageTables(tables, page_num) == tables[page_num]

\* page_coordinates = self._extract_coordinates_for_page(page_tables, page_num)
PageCoordinates(w) ==
    ExtractCoordinatesForPage(
        PageTables(w.tables, w.page_num), w.page_num,
        IF w.global_id_counter = 0 THEN FirstCamelotId ELSE w.global_id_counter)

\* the worker after one iteration of the for loop that emitted page_num; after
\* the last page of the chunk, current_page = batch_end + 1
PageDone(w) ==
    LET page_coordinates == PageCoordinates(w)
        after == [w EXCEPT
                    !.global_id_counter =
                        (IF @ = 0 THEN FirstCamelotId ELSE @) + Len(page_coordinates),
                    !.all_coordinates = @ \o page_coordinates,
                    !.emitted = @ \cup {w.page_num},
                    !.progress = Append(@, <<w.page_num - w.start_page + 1,
                                             w.end_page - w.start_page + 1>>),
                    !.page_num = @ + 1]
    IN IF w.page_num = w.batch_end
       THEN [after EXCEPT !.pc = "loop", !.tables = <<>>,
                          !.current_page = w.batch_end + 1]
       ELSE after

\* `if self.should_stop: break`, then current_page = batch_end + 1
PagesBroken(w) ==
    [w EXCEPT !.pc = "loop", !.tables = <<>>, !.current_page = w.batch_end + 1]

Finished(w, outcome) ==
    [w EXCEPT !.running = FALSE, !.pc = "done", !.outcome = outcome,
              !.tables = <<>>]

\* ------------------------------------------------- MainWindow: the handlers
\* The data a handler reads and writes, as one record:
\*   coordinates, next_id      self.coordinates_manager (TableCoordinates)
\*   all_extracted_coordinates self.all_extracted_coordinates
\*   viewer_coordinates        self.viewer.coordinates (the displayed list)

MW == [coordinates |-> coordinates, next_id |-> next_id,
       all_extracted_coordinates |-> all_extracted_coordinates,
       viewer_coordinates |-> viewer_coordinates]

\* the fields the viewer is handed (viewer_coord = {...} in the handlers)
ViewerCoord(c) ==
    [id |-> c.id, page |-> c.page, x1 |-> c.x1, y1 |-> c.y1,
     x2 |-> c.x2, y2 |-> c.y2, user_created |-> c.user_created]

ViewerList(cs) == [i \in 1..Len(cs) |-> ViewerCoord(cs[i])]

\* for coord_data in list: manager_id = add_coordinate(coord_data);
\*     coord_data['id'] = manager_id; all_extracted_coordinates.append(coord_data)
RECURSIVE AddToBoth(_, _)
AddToBoth(m, list) ==
    IF list = <<>> THEN m
    ELSE LET r == AddCoordinate(m, Head(list)) IN
         AddToBoth([m EXCEPT !.coordinates = r.coordinates,
                             !.next_id = r.next_id,
                             !.all_extracted_coordinates =
                                 Append(@, [Head(list) EXCEPT !.id = r.id])],
                   Tail(list))

\* for coord_id in coords_to_remove: remove_coordinate(coord_id)
RECURSIVE RemoveAll(_, _)
RemoveAll(store, ids) ==
    IF ids = <<>> THEN store
    ELSE RemoveAll(RemoveCoordinate(store, Head(ids)), Tail(ids))

IdList(cs) == [i \in 1..Len(cs) |-> cs[i].id]

\* the page a notification's page_number selects in on_page_extraction_completed:
\* coord.get('page') == page_number
SelectsPage(c, page_number) == c.page = page_number

\* MainWindow.on_page_extraction_completed
OnPageExtractionCompleted(m, page_number, page_coordinates) ==
    LET existing_user_coords_manager ==
            SelectSeq(m.coordinates,
                      LAMBDA c : SelectsPage(c, page_number) /\ c.user_created)
        existing_user_coords_extracted ==
            SelectSeq(m.all_extracted_coordinates,
                      LAMBDA c : SelectsPage(c, page_number) /\ c.user_created)
        existing_user_coords ==
            IF existing_user_coords_manager # <<>>
            THEN existing_user_coords_manager
            ELSE existing_user_coords_extracted
        kept == SelectSeq(m.all_extracted_coordinates,
                          LAMBDA c : ~SelectsPage(c, page_number))
        coords_to_remove ==
            IdList(SelectSeq(m.coordinates,
                             LAMBDA c : SelectsPage(c, page_number)))
        removed == RemoveAll([coordinates |-> m.coordinates,
                              next_id |-> m.next_id], coords_to_remove)
        m1 == [m EXCEPT !.coordinates = removed.coordinates,
                        !.all_extracted_coordinates = kept]
        m2 == AddToBoth(m1, page_coordinates)
        m3 == AddToBoth(m2, existing_user_coords)
    IN [m3 EXCEPT !.viewer_coordinates = ViewerList(m3.all_extracted_coordinates)]

\* the resynchronisation branch of on_batch_extraction_completed: clear_all,
\* then add every entry of all_extracted_coordinates and store its new id
RECURSIVE Resync(_, _)
Resync(store, list) ==
    IF list = <<>> THEN [coordinates |-> store.coordinates,
                         next_id |-> store.next_id, list |-> <<>>]
    ELSE LET r == AddCoordinate(store, Head(list))
             rest == Resync(r, Tail(list))
         IN [rest EXCEPT !.list = <<[Head(list) EXCEPT !.id = r.id]>> \o @]

\* MainWindow.on_batch_extraction_completed (the all_coordinates argument is
\* only printed)
OnBatchExtractionCompleted(m) ==
    LET manager_count == Len(m.coordinates)
        extracted_count == Len(m.all_extracted_coordinates)
        r == Resync(ClearAll, m.all_extracted_coordinates)
        m1 == IF manager_count # extracted_count
              THEN [m EXCEPT !.coordinates = r.coordinates,
                             !.next_id = r.next_id,
                             !.all_extracted_coordinates = r.list]
              ELSE m
    IN [m1 EXCEPT !.viewer_coordinates = ViewerList(m1.all_extracted_coordinates)]

\* MainWindow.update_coordinates_display: the manager's entries, then the
\* accumulator's entries whose id is not yet in the list
RECURSIVE MergeById(_, _)
MergeById(acc, list) ==
    IF list = <<>> THEN acc
    ELSE MergeById(IF Head(list).id \in Ids(acc) THEN acc
                   ELSE Append(acc, Head(list)), Tail(list))

UpdateCoordinatesDisplay(m) ==
    [m EXCEPT !.viewer_coordinates =
        ViewerList(MergeById(MergeById(<<>>, m.coordinates),
                             m.all_extracted_coordinates))]

\* MainWindow.create_user_coordinate on viewer.current_page = page
CreateUserCoordinate(m, page, x1, y1, x2, y2) ==
    LET r == CreateUserCoordinateInStore(m, page, x1, y1, x2, y2) IN
    UpdateCoordinatesDisplay([m EXCEPT !.coordinates = r.coordinates,
                                       !.next_id = r.next_id])

\* delete_coordinate as it would be if it left all_extracted_coordinates alone
DeleteCoordinateFromManagerOnly(m, coord_id) ==
    LET r == RemoveCoordinate(m, coord_id) IN
    IF r.ok
    THEN UpdateCoordinatesDisplay([m EXCEPT !.coordinates = r.coordinates])
    ELSE m

\* MainWindow.delete_coordinate
DeleteCoordinate(m, coord_id) ==
    LET r == RemoveCoordinate(m, coord_id) IN
    IF r.ok
    THEN UpdateCoordinatesDisplay(
             [m EXCEPT !.coordinates = r.coordinates,
                       !.all_extracted_coordinates =
                           SelectSeq(@, LAMBDA c : c.id # coord_id)])
    ELSE m

\* MainWindow.update_coordinate (the editor's coordinate_updated signal)
UpdateCoordinate(m, coord_id, updates) ==
    LET r == UpdateCoordinateInStore(m, coord_id, updates) IN
    IF r.ok
    THEN UpdateCoordinatesDisplay([m EXCEPT !.coordinates = r.coordinates])
    ELSE m

\* TableEditor.apply_changes: the updated_data emitted for the values of the
\* spin boxes and the check box
ApplyChanges(x1, y1, x2, y2, page, user_created) ==
    [x1 |-> Min(x1, x2), y1 |-> Min(y1, y2),
     x2 |-> Max(x1, x2), y2 |-> Max(y1, y2),
     page |-> page, user_created |-> user_created,
     width |-> Max(x1, x2) - Min(x1, x2),
     height |-> Max(y1, y2) - Min(y1, y2)]

\* MainWindow.on_rectangle_moved (the viewer's rectangle_moved signal): the
\* manager's entry and the first entry of all_extracted_coordinates with the id
OnRectangleMoved(m, coord_id, x1, y1, x2, y2) ==
    LET updates == [x1 |-> x1, y1 |-> y1, x2 |-> x2, y2 |-> y2,
                    width |-> x2 - x1, height |-> y2 - y1]
        r == UpdateCoordinateInStore(m, coord_id, updates)
        i == FirstIndexOf(m.all_extracted_coordinates, coord_id, 1)
    IN UpdateCoordinatesDisplay(
           [m EXCEPT !.coordinates = r.coordinates,
                     !.all_extracted_coordinates =
                         IF i = 0 THEN @ ELSE [@ EXCEPT ![i] = Merge(@, updates)]])

\* TableCoordinate.from_dict and __post_init__: a copy of the dict's values
\* with the bounds in order
TableCoordinateFromDict(data) ==
    [id |-> data.id, page |-> data.page,
     x1 |-> Min(data.x1, data.x2), y1 |-> Min(data.y1, data.y2),
     x2 |-> Max(data.x1, data.x2), y2 |-> Max(data.y1, data.y2),
     user_created |-> data.user_created]

\* for coord_data in cs: current_session.add_coordinate(
\*     TableCoordinate.from_dict(coord_data))
SessionAdded(session, cs) ==
    session \o [i \in 1..Len(cs) |-> TableCoordinateFromDict(cs[i])]

\* TableExtractionSession.remove_coordinate: the first entry with the id
SessionRemoved(session, coord_id) ==
    LET i == FirstIndexOf(session, coord_id, 1) IN
    IF i = 0 THEN session ELSE DeleteAt(session, i)

\* MainWindow.on_extraction_finished
OnExtractionFinished(m, cs) ==
    UpdateCoordinatesDisplay(
        AddToBoth([m EXCEPT !.coordinates = <<>>, !.next_id = ClearAll.next_id,
                            !.all_extracted_coordinates = <<>>], cs))

\* a deterministic extraction service: for each 1-based page, the tables
\* camelot.read_pdf finds on it, or that reading the page raises
Returns(tables) == [raises |-> FALSE, tables |-> tables]
Raises == [raises |-> TRUE, tables |-> <<>>]
Services == [Pages1 -> {Returns(tables) : tables \in TableLists} \cup {Raises}]
TotalServices == {service \in Services : \A p \in Pages1 : ~service[p].raises}

\* run() from the while loop on, for the service, every notification handled
\* in the order emitted and nothing else happening: page_completed by
\* on_page_extraction_completed, batch_completed by
\* on_batch_extraction_completed. A read_pdf call raises when reading one of
\* its pages does.
RECURSIVE JobRun(_, _, _)
JobRun(m, w, service) ==
    IF w.pc = "pages"
    THEN JobRun(OnPageExtractionCompleted(m, w.page_num, PageCoordinates(w)),
                PageDone(w), service)
    ELSE IF LoopContinues(w)
    THEN IF \E p \in w.current_page..BatchEnd(w) : service[p].raises
         THEN JobRun(m, ChunkFailed(w), service)
         ELSE JobRun(m, ChunkRead(w, [p \in w.current_page..BatchEnd(w) |->
                                        service[p].tables]), service)
    ELSE OnBatchExtractionCompleted(m)

SetMW(m) ==
    /\ coordinates' = m.coordinates
    /\ next_id' = m.next_id
    /\ all_extracted_coordinates' = m.all_extracted_coordinates
    /\ viewer_coordinates' = m.viewer_coordinates


\* ------------------------------------------------------- the viewer's label

\* int(n / d) for d > 0: truncation towards zero
IntOf(n, d) == IF n >= 0 THEN n \div d ELSE 0 - ((0 - n) \div d)

\* QRect(x, y, width, height); QRect.right() is x + width - 1 and
\* QRect.bottom() is y + height - 1
QRect(x, y, width, height) == [x |-> x, y |-> y, width |-> width, height |-> height]
Right(rect) == rect.x + rect.width - 1
Bottom(rect) == rect.y + rect.height - 1
Contains(rect, pos) ==
    /\ rect.x <= pos[1] /\ pos[1] <= Right(rect)
    /\ rect.y <= pos[2] /\ pos[2] <= Bottom(rect)

\* QRect(start_pos, current_pos).normalized(): the corners are swapped on an
\* axis when the second lies more than one pixel before the first
Normalized(p1, p2) ==
    LET x1 == IF p2[1] < p1[1] - 1 THEN p2[1] ELSE p1[1]
        x2 == IF p2[1] < p1[1] - 1 THEN p1[1] ELSE p2[1]
        y1 == IF p2[2] < p1[2] - 1 THEN p2[2] ELSE p1[2]
        y2 == IF p2[2] < p1[2] - 1 THEN p1[2] ELSE p2[2]
    IN QRect(x1, y1, x2 - x1 + 1, y2 - y1 + 1)

\* actual_page_height = page_pixmap.height() / 2.0, in coordinate units
ActualPageHeight(label) == (label.pixmap_height * Unit) \div RenderFactor

\* InteractivePDFLabel._coord_to_screen_rect. scale_factor is in percent and
\* the coordinates in 1/Unit, so that coord * 2.0 * scale_factor pixels are
\* coord * RenderFactor * scale_factor / (100 * Unit).
CoordToScreenRect(label, coord, x_offset, y_offset) ==
    IF label.pixmap_height = 0 THEN QRect(0, 0, 0, 0)
    ELSE LET den == 100 * Unit
             screen_x1 == coord.x1 * RenderFactor * label.scale_factor
             screen_x2 == coord.x2 * RenderFactor * label.scale_factor
             screen_y1 == (ActualPageHeight(label) - coord.y2)
                              * RenderFactor * label.scale_factor
             screen_y2 == (ActualPageHeight(label) - coord.y1)
                              * RenderFactor * label.scale_factor
         IN QRect(IntOf(screen_x1 + x_offset * den, den),
                  IntOf(screen_y1 + y_offset * den, den),
                  IntOf(screen_x2 - screen_x1, den),
                  IntOf(screen_y2 - screen_y1, den))

\* (pixels - offset) / scale_factor / 2.0, in coordinate units; exact for the
\* values of Zooms
ToPdf(label, pixels) ==
    (pixels * 100 * Unit) \div (RenderFactor * label.scale_factor)

\* InteractivePDFLabel._screen_to_coord_rect (the empty dict, when there is no
\* pixmap, is never used by the callers modelled)
ScreenToCoordRect(label, screen_rect, x_offset, y_offset) ==
    LET pdf_x1 == ToPdf(label, screen_rect.x - x_offset)
        pdf_x2 == ToPdf(label, Right(screen_rect) - x_offset)
        pdf_y1 == ActualPageHeight(label) - ToPdf(label, Bottom(screen_rect) - y_offset)
        pdf_y2 == ActualPageHeight(label) - ToPdf(label, screen_rect.y - y_offset)
    IN [x1 |-> pdf_x1, y1 |-> pdf_y1, x2 |-> pdf_x2, y2 |-> pdf_y2,
        width |-> pdf_x2 - pdf_x1, height |-> pdf_y2 - pdf_y1,
        page |-> label.current_page, user_created |-> TRUE]

\* InteractivePDFLabel._get_rect_at_pos: the id of the first rectangle of the
\* current page that contains pos, 0 for None
RECURSIVE RectAtPos(_, _, _)
RectAtPos(label, cs, pos) ==
    IF cs = <<>> \/ label.pixmap_height = 0 THEN 0
    ELSE IF /\ Head(cs).page = label.current_page
            /\ Contains(CoordToScreenRect(label, Head(cs), label.x_offset,
                                           label.y_offset), pos)
    THEN Head(cs).id
    ELSE RectAtPos(label, Tail(cs), pos)

\* the test of mouseReleaseEvent as it would be on the width alone
LargeEnoughInWidth(screen_rect) == screen_rect.width > MinDrawSize

\* mouseReleaseEvent: screen_rect.width() > 10 and screen_rect.height() > 10
LargeEnough(screen_rect) ==
    screen_rect.width > MinDrawSize /\ screen_rect.height > MinDrawSize

\* the eight handles of _get_resize_handle_at_pos, in the order of its dict
\* (QRect.left() is x, top() is y, center() is ((left + right) / 2,
\* (top + bottom) / 2))
HandleNames == <<"tl", "tr", "bl", "br", "t", "b", "l", "r">>
HandleSize == 8
HandleRect(screen_rect, handle_name) ==
    LET half == HandleSize \div 2
        left == screen_rect.x - half
        right == Right(screen_rect) - half
        top == screen_rect.y - half
        bottom == Bottom(screen_rect) - half
        center_x == IntOf(screen_rect.x + Right(screen_rect), 2) - half
        center_y == IntOf(screen_rect.y + Bottom(screen_rect), 2) - half
    IN CASE handle_name = "tl" -> QRect(left, top, HandleSize, HandleSize)
         [] handle_name = "tr" -> QRect(right, top, HandleSize, HandleSize)
         [] handle_name = "bl" -> QRect(left, bottom, HandleSize, HandleSize)
         [] handle_name = "br" -> QRect(right, bottom, HandleSize, HandleSize)
         [] handle_name = "t" -> QRect(center_x, top, HandleSize, HandleSize)
         [] handle_name = "b" -> QRect(center_x, bottom, HandleSize, HandleSize)
         [] handle_name = "l" -> QRect(left, center_y, HandleSize, HandleSize)
         [] handle_name = "r" -> QRect(right, center_y, HandleSize, HandleSize)

\* InteractivePDFLabel._get_resize_handle_at_pos for the label's list cs (the
\* regions of the page shown): the first handle of the selected rectangle
\* that contains pos, "" for None
ResizeHandleAtPos(label, cs, pos) ==
    LET i == FirstIndexOf(cs, label.selected_rect_id, 1) IN
    IF label.selected_rect_id = 0 \/ i = 0 \/ label.pixmap_height = 0 THEN ""
    ELSE LET screen_rect == CoordToScreenRect(label, cs[i], label.x_offset,
                                              label.y_offset)
             hit == {j \in 1..Len(HandleNames) :
                        Contains(HandleRect(screen_rect, HandleNames[j]), pos)}
         IN IF hit = {} THEN ""
            ELSE HandleNames[CHOOSE j \in hit : \A jj \in hit : j <= jj]

\* InteractivePDFLabel.__init__: no page image (page_pixmap = None is height
\* 0), scale_factor 1.0 (in percent), no gesture in progress. x_offset and
\* y_offset are (self.width() - pixmap.width()) // 2 and the same for the
\* height, fixed by the size of the window. screen_rect and coord_dict hold
\* the last results of _coord_to_screen_rect and _screen_to_coord_rect (SpecGeometry).
NoPixmap ==
    [pixmap_height |-> 0, scale_factor |-> 100, x_offset |-> 0, y_offset |-> 0,
     current_page |-> 0, selected_rect_id |-> 0,
     drawing_new_rect |-> FALSE, start_pos |-> <<0, 0>>, current_pos |-> <<0, 0>>,
     moving_rect |-> FALSE, resizing_rect |-> FALSE, resize_handle |-> "",
     screen_rect |-> {}, coord_dict |-> {}]

\* TableViewer.update_page_display, called by TableViewer.load_pdf: the first
\* page rendered with fitz.Matrix(2, 2) and the zoom kept
PageShown(label, pdf_path) ==
    [label EXCEPT !.pixmap_height = RenderFactor * PageHeight, !.current_page = 0]

\* ------------------------------------------------------------------ history

NoOp == [op |-> "init", page |-> 0, id |-> 0, ok |-> TRUE]
Op(name, page, id, ok) == [op |-> name, page |-> page, id |-> id, ok |-> ok]

EmptyLedger == [detected |-> [q \in Pages0 |-> <<>>],
                drawn |-> [q \in Pages0 |-> <<>>],
                late |-> [q \in Pages0 |-> <<>>],
                edited |-> [q \in Pages0 |-> <<>>],
                deleted |-> {}]

Rects(cs) == [i \in 1..Len(cs) |-> Rect(cs[i])]

RECURSIVE RemoveOne(_, _)
RemoveOne(seq, x) ==
    IF seq = <<>> THEN <<>>
    ELSE IF Head(seq) = x THEN Tail(seq)
    ELSE <<Head(seq)>> \o RemoveOne(Tail(seq), x)

\* the job of worker k has been started and is not over: its thread is
\* running, or a notification of it waits to be handled
JobInProgress(k) ==
    \/ IsRunning(W(k))
    \/ \E i \in 1..Len(events) : events[i].job = W(k).job

\* the pages of the worker's job whose page_completed has been handled
Reconciled(w) ==
    {p \in w.emitted :
        \A i \in 1..Len(events) :
            ~(/\ events[i].sig = "page_completed"
              /\ events[i].job = w.job
              /\ events[i].page_number = p)}

\* the service's regions for the 1-based page page_number have been delivered
LedgerDetected(l, page_number, cs) ==
    [l EXCEPT !.detected[page_number - 1] = Rects(cs)]

LedgerDrawn(l, page, c) ==
    [l EXCEPT !.drawn[page] = Append(@, Rect(c)),
              !.late[page] = IF counters.jobs > 0 THEN Append(@, Rect(c)) ELSE @]

LedgerDeleted(l, c) ==
    LET l1 == IF c.user_created
              THEN [l EXCEPT !.drawn[c.page] = RemoveOne(@, Rect(c)),
                             !.late[c.page] = RemoveOne(@, Rect(c))]
              ELSE [l EXCEPT !.detected[c.page] = RemoveOne(@, Rect(c)),
                             !.edited[c.page] = RemoveOne(@, Rect(c))]
    IN [l1 EXCEPT !.deleted =
            @ \cup {[id |-> c.id, page |-> c.page, rect |-> Rect(c),
                     job |-> W(k).job] :
                    k \in {kk \in WorkerKinds :
                               /\ JobInProgress(kk)
                               /\ c.page + 1 \in Reconciled(W(kk))}}]

Replaced(seq, x, y) ==
    IF \E i \in 1..Len(seq) : seq[i] = x THEN Append(RemoveOne(seq, x), y) ELSE seq

\* the region c has been given the bounds rect by a move, a resize or the
\* editor panel
LedgerEdited(l, c, rect) ==
    IF c.user_created
    THEN [l EXCEPT !.drawn[c.page] = Replaced(@, Rect(c), rect),
                   !.late[c.page] = Replaced(@, Rect(c), rect)]
    ELSE [l EXCEPT !.detected[c.page] = Replaced(@, Rect(c), rect),
                   !.edited[c.page] = Append(RemoveOne(@, Rect(c)), rect)]

\* the job's batch_completed has been handled
LedgerCompleted(l, job) ==
    [l EXCEPT !.deleted = {d \in @ : d.job # job}]

Bump(field) == counters' = [counters EXCEPT ![field] = @ + 1]

Init ==
    /\ coordinates = <<>>
    /\ current_session = <<>>
    /\ next_id = FirstUserId
    /\ all_extracted_coordinates = <<>>
    /\ viewer_coordinates = <<>>
    /\ current_pdf_path = NoPath
    /\ total_pages = 0
    /\ custom_batch_worker = NoWorker
    /\ batch_worker = NoWorker
    /\ extraction_worker = NoExtractionWorker
    /\ events = <<>>
    /\ ui_pc = "idle"
    /\ counters = [jobs |-> 0, loads |-> 0, user_ops |-> 0, store_ops |-> 0]
    /\ last = NoOp
    /\ ledger = EmptyLedger
    /\ returned_ids = <<>>
    /\ returned_list = <<>>
    /\ pdf_label = NoPixmap

\* ------------------------------------------------------ worker thread steps

Emit(msg) == events' = Append(events, msg)

UnchangedByWorker ==
    UNCHANGED <<coordinates, next_id, all_extracted_coordinates,
                viewer_coordinates, current_pdf_path, total_pages,
                extraction_worker, ui_pc, counters, last, ledger, current_session, returned_ids,
                   returned_list, pdf_label>>

\* run() in which a failure of fitz.open ends with batch_completed
RunOpenCompleting(k) ==
    /\ IsRunning(W(k)) /\ W(k).pc = "start"
    /\ \E opened \in BOOLEAN :
         LET w == W(k) IN
         IF ~opened
         THEN /\ SetW(k, Finished(w, "failed"))
              /\ Emit(BatchCompletedMsg(k, w))
         ELSE IF Opened(k, w).pc = "invalid"
         THEN /\ SetW(k, Finished(Opened(k, w), "failed"))
              /\ Emit(ErrorOccurredMsg(k, w))
         ELSE /\ SetW(k, Opened(k, w))
              /\ UNCHANGED events
    /\ UnchangedByWorker

\* run(), up to the while loop: fitz.open raises (the outer except clause),
\* or the range is invalid, or the loop is entered
RunOpen(k) ==
    /\ IsRunning(W(k)) /\ W(k).pc = "start"
    /\ \E opened \in BOOLEAN :
         LET w == W(k) IN
         IF ~opened
         THEN /\ SetW(k, Finished(w, "failed"))
              /\ Emit(ErrorOccurredMsg(k, w))
         ELSE IF Opened(k, w).pc = "invalid"
         THEN /\ SetW(k, Finished(Opened(k, w), "failed"))
              /\ Emit(ErrorOccurredMsg(k, w))
         ELSE /\ SetW(k, Opened(k, w))
              /\ UNCHANGED events
    /\ UnchangedByWorker

\* the while loop with a camelot.read_pdf that neither returns nor raises
RunChunkHanging(k) ==
    /\ IsRunning(W(k)) /\ W(k).pc = "loop" /\ LoopContinues(W(k))
    /\ UNCHANGED <<custom_batch_worker, batch_worker, events>>
    /\ UnchangedByWorker

\* one iteration of the while loop up to the return of camelot.read_pdf:
\* either the tables of the pages of the chunk, or an exception, which is
\* reported and skips the chunk
RunChunk(k) ==
    /\ IsRunning(W(k)) /\ W(k).pc = "loop" /\ LoopContinues(W(k))
    /\ LET w == W(k) IN
       \/ /\ \E tables \in [w.current_page..BatchEnd(w) -> TableLists] :
                SetW(k, ChunkRead(w, tables))
          /\ UNCHANGED events
       \/ /\ SetW(k, ChunkFailed(w))
          /\ Emit(ErrorOccurredMsg(k, w))
    /\ UnchangedByWorker

\* one iteration of `for page_num in range(current_page, batch_end + 1)`
RunPage(k) ==
    /\ IsRunning(W(k)) /\ W(k).pc = "pages"
    /\ LET w == W(k) IN
       IF w.should_stop
       THEN /\ SetW(k, PagesBroken(w))
            /\ UNCHANGED events
       ELSE /\ Emit(PageCompletedMsg(k, w, w.page_num, PageCoordinates(w)))
            /\ SetW(k, PageDone(w))
    /\ UnchangedByWorker

\* the end of run(): batch_completed unless a stop was requested
RunFinish(k) ==
    /\ IsRunning(W(k)) /\ W(k).pc = "loop" /\ ~LoopContinues(W(k))
    /\ LET w == W(k) IN
       IF ~w.should_stop
       THEN /\ Emit(BatchCompletedMsg(k, w))
            /\ SetW(k, Finished(w, "completed"))
       ELSE /\ UNCHANGED events
            /\ SetW(k, Finished(w, "cancelled"))
    /\ UnchangedByWorker

\* TableExtractor._extract_coordinates for the tables of one page
RECURSIVE ExtractCoordinates(_, _, _)
ExtractCoordinates(tables, page, table_id) ==
    IF tables = <<>> THEN <<>>
    ELSE LET bbox == Head(tables) IN
         <<[id |-> table_id, page |-> page - 1,
            x1 |-> bbox[1], y1 |-> bbox[2], x2 |-> bbox[3], y2 |-> bbox[4],
            width |-> bbox[3] - bbox[1], height |-> bbox[4] - bbox[2],
            user_created |-> FALSE]>>
         \o ExtractCoordinates(Tail(tables), page, table_id + 1)

\* ExtractionWorker.run for pages = str(page): load_pdf fails (error), or
\* extract_tables returns the page's tables (an exception inside
\* extract_tables is swallowed and leaves the coordinates [])
RunExtraction ==
    /\ IsRunning(extraction_worker)
    /\ \/ Emit(ErrorMsg(extraction_worker))
       \/ \E tables \in TableLists :
              Emit([FinishedMsg(extraction_worker,
                                ExtractCoordinates(tables, extraction_worker.pages, 0))
                    EXCEPT !.page_number = extraction_worker.pages])
    /\ extraction_worker' = [extraction_worker EXCEPT !.running = FALSE]
    /\ UNCHANGED <<coordinates, next_id, all_extracted_coordinates,
                   viewer_coordinates, current_pdf_path, total_pages,
                   custom_batch_worker, batch_worker, ui_pc, counters, last,
                   ledger, current_session, returned_ids,
                   returned_list, pdf_label>>

\* ---------------------------------------------------------- UI thread steps

\* MainWindow.load_pdf: a new session; only coordinates_manager is cleared
LoadPdf(pdf_path) ==
    /\ UIReady
    /\ current_pdf_path' = pdf_path
    /\ total_pages' = PageCount(pdf_path)
    /\ coordinates' = ClearAll.coordinates
    /\ next_id' = ClearAll.next_id
    /\ Bump("loads")
    /\ last' = Op("load_pdf", 0, 0, TRUE)
    /\ current_session' = <<>>
    /\ ledger' = EmptyLedger
    /\ pdf_label' = PageShown(pdf_label, pdf_path)
    /\ UNCHANGED <<all_extracted_coordinates, viewer_coordinates,
                   custom_batch_worker, batch_worker, extraction_worker,
                   events, ui_pc, returned_ids, returned_list>>

\* MainWindow.get_page_range for the values a, b of the two spin boxes
GetPageRange(a, b) ==
    LET start_page == IF a > b THEN b ELSE a
        end_page == IF a > b THEN a ELSE b
    IN <<start_page,
         IF total_pages > 0 THEN Min(end_page, total_pages) ELSE end_page>>

\* MainWindow.extract_tables_with_range -> start_custom_batch_extraction
StartCustomBatchExtraction(a, b, batch_size) ==
    /\ UIReady
    /\ current_pdf_path # NoPath
    /\ LET range == GetPageRange(a, b) IN
       IF IsRunning(custom_batch_worker)
       THEN /\ last' = Op("start_custom", 0, 0, FALSE)
            /\ UNCHANGED <<all_extracted_coordinates, custom_batch_worker, counters>>
       ELSE /\ all_extracted_coordinates' = <<>>
            /\ custom_batch_worker' =
                   NewWorker(current_pdf_path, batch_size, range[1], range[2])
            /\ Bump("jobs")
            /\ last' = Op("start_custom", 0, 0, TRUE)
    /\ UNCHANGED <<coordinates, next_id, viewer_coordinates, current_pdf_path,
                   total_pages, batch_worker, extraction_worker, events, ui_pc,
                   ledger, current_session, returned_ids,
                   returned_list, pdf_label>>

\* MainWindow.extract_all_pages_batch -> start_batch_extraction
\* (TableExtractor.start_batch_extraction constructs the worker; its own
\* stop-and-wait branch is behind the same isRunning test and never taken)
StartBatchExtraction(batch_size) ==
    /\ UIReady
    /\ current_pdf_path # NoPath
    /\ IF IsRunning(batch_worker)
       THEN /\ last' = Op("start_batch", 0, 0, FALSE)
            /\ UNCHANGED <<all_extracted_coordinates, batch_worker, counters>>
       ELSE /\ all_extracted_coordinates' = <<>>
            /\ batch_worker' = NewWorker(current_pdf_path, batch_size, 1, 0)
            /\ Bump("jobs")
            /\ last' = Op("start_batch", 0, 0, TRUE)
    /\ UNCHANGED <<coordinates, next_id, viewer_coordinates, current_pdf_path,
                   total_pages, custom_batch_worker, extraction_worker, events,
                   ui_pc, ledger, current_session, returned_ids,
                   returned_list, pdf_label>>

\* MainWindow.extract_current_page -> start_extraction, for
\* viewer.current_page = page (0-based)
StartExtraction(page) ==
    /\ UIReady
    /\ current_pdf_path # NoPath
    /\ IF IsRunning(extraction_worker)
       THEN /\ last' = Op("start_extraction", page, 0, FALSE)
            /\ UNCHANGED <<extraction_worker, counters>>
       ELSE /\ extraction_worker' = [exists |-> TRUE, running |-> TRUE,
                                     pdf_path |-> current_pdf_path,
                                     pages |-> page + 1,
                                     job |-> counters.jobs + 1]
            /\ Bump("jobs")
            /\ last' = Op("start_extraction", page, 0, TRUE)
    /\ UNCHANGED <<coordinates, next_id, all_extracted_coordinates,
                   viewer_coordinates, current_pdf_path, total_pages,
                   custom_batch_worker, batch_worker, events, ui_pc,
                   ledger, current_session, returned_ids,
                   returned_list, pdf_label>>

\* worker.stop()
Stop(w) == [w EXCEPT !.should_stop = TRUE, !.stop_reconciled = Reconciled(w)]

\* MainWindow.stop_extraction from `if self.batch_worker ...` on:
\* batch_worker.stop() and wait(), else extraction_worker.terminate()
StopBatchPart ==
    IF IsRunning(batch_worker)
    THEN /\ batch_worker' = Stop(batch_worker)
         /\ ui_pc' = "wait_batch"
         /\ UNCHANGED extraction_worker
    ELSE /\ extraction_worker' = [extraction_worker EXCEPT !.running = FALSE]
         /\ ui_pc' = "idle"
         /\ UNCHANGED batch_worker

\* MainWindow.stop_extraction up to its first wait()
StopExtraction ==
    /\ UIReady
    /\ AnyRunning
    /\ IF IsRunning(custom_batch_worker)
       THEN /\ custom_batch_worker' = Stop(custom_batch_worker)
            /\ ui_pc' = "wait_custom"
            /\ UNCHANGED <<batch_worker, extraction_worker>>
       ELSE /\ StopBatchPart
            /\ UNCHANGED custom_batch_worker
    /\ last' = Op("stop_extraction", 0, 0, TRUE)
    /\ UNCHANGED <<coordinates, next_id, all_extracted_coordinates,
                   viewer_coordinates, current_pdf_path, total_pages,
                   events, counters, ledger, current_session, returned_ids,
                   returned_list, pdf_label>>

\* a wait() of stop_extraction returns when the worker's run() has returned
StopExtractionResume ==
    /\ \/ /\ ui_pc = "wait_custom" /\ ~IsRunning(custom_batch_worker)
          /\ StopBatchPart
       \/ /\ ui_pc = "wait_batch" /\ ~IsRunning(batch_worker)
          /\ extraction_worker' = [extraction_worker EXCEPT !.running = FALSE]
          /\ ui_pc' = "idle"
          /\ UNCHANGED batch_worker
    /\ last' = Op("stop_resume", 0, 0, TRUE)
    /\ UNCHANGED <<coordinates, next_id, all_extracted_coordinates,
                   viewer_coordinates, current_pdf_path, total_pages,
                   custom_batch_worker, events, counters, ledger, current_session, returned_ids,
                   returned_list, pdf_label>>

UnchangedByHandler ==
    UNCHANGED <<current_pdf_path, total_pages, custom_batch_worker,
                batch_worker, extraction_worker, ui_pc, returned_ids,
                   returned_list, pdf_label>>

\* the event loop delivers page_completed to on_page_extraction_completed
PageCompleted ==
    /\ UIReady /\ events # <<>> /\ Head(events).sig = "page_completed"
    /\ SetMW(OnPageExtractionCompleted(MW, Head(events).page_number,
                                       Head(events).coordinates))
    /\ events' = Tail(events)
    /\ last' = Op("page_completed", Head(events).page_number, 0, TRUE)
    /\ UNCHANGED current_session
    /\ ledger' = IF Head(events).pdf_path = current_pdf_path
                 THEN LedgerDetected(ledger, Head(events).page_number,
                                     Head(events).coordinates)
                 ELSE ledger
    /\ UNCHANGED counters
    /\ UnchangedByHandler

\* the event loop delivers batch_completed to on_batch_extraction_completed
BatchCompleted ==
    /\ UIReady /\ events # <<>> /\ Head(events).sig = "batch_completed"
    /\ SetMW(OnBatchExtractionCompleted(MW))
    /\ events' = Tail(events)
    /\ last' = Op("batch_completed", 0, 0, TRUE)
    /\ UNCHANGED current_session
    /\ ledger' = LedgerCompleted(ledger, Head(events).job)
    /\ UNCHANGED counters
    /\ UnchangedByHandler

\* on_batch_extraction_error and on_extraction_error: a message box, the
\* buttons and the status bar
ErrorReported ==
    /\ UIReady /\ events # <<>> /\ Head(events).sig \in {"error_occurred", "error"}
    /\ events' = Tail(events)
    /\ last' = Op("error_reported", 0, 0, TRUE)
    /\ UNCHANGED <<coordinates, next_id, all_extracted_coordinates,
                   viewer_coordinates, counters, ledger, current_session>>
    /\ UnchangedByHandler

\* the event loop delivers finished to on_extraction_finished
ExtractionFinished ==
    /\ UIReady /\ events # <<>> /\ Head(events).sig = "finished"
    /\ SetMW(OnExtractionFinished(MW, Head(events).coordinates))
    /\ events' = Tail(events)
    /\ last' = Op("extraction_finished", Head(events).page_number, 0, TRUE)
    /\ current_session' = SessionAdded(current_session, all_extracted_coordinates')
    /\ ledger' = IF Head(events).pdf_path = current_pdf_path
                 THEN LedgerDetected(ledger, Head(events).page_number,
                                     Head(events).coordinates)
                 ELSE ledger
    /\ UNCHANGED counters
    /\ UnchangedByHandler

\* a draw gesture on viewer.current_page = page -> create_user_coordinate
UserCreates(page, rect) ==
    /\ UIReady
    /\ current_pdf_path # NoPath
    /\ SetMW(CreateUserCoordinate(MW, page, rect[1], rect[2], rect[3], rect[4]))
    /\ Bump("user_ops")
    /\ last' = Op("create_user_coordinate", page, next_id, TRUE)
    /\ current_session' = SessionAdded(current_session,
           <<coordinates'[Len(coordinates')]>>)
    /\ ledger' = LedgerDrawn(ledger, page,
                             UserCoordinate(page, rect[1], rect[2], rect[3], rect[4]))
    /\ UNCHANGED events
    /\ UnchangedByHandler

\* the delete key or the editor's delete button -> delete_coordinate(coord_id)
UserDeletes(coord_id) ==
    /\ UIReady
    /\ SetMW(DeleteCoordinate(MW, coord_id))
    /\ Bump("user_ops")
    /\ LET i == FirstIndexOf(coordinates, coord_id, 1) IN
       /\ last' = Op("delete_coordinate",
                     IF i = 0 THEN 0 ELSE coordinates[i].page, coord_id, i # 0)
       /\ current_session' = IF i = 0 THEN current_session
                             ELSE SessionRemoved(current_session, coord_id)
       /\ ledger' = IF i = 0 THEN ledger ELSE LedgerDeleted(ledger, coordinates[i])
    /\ UNCHANGED events
    /\ UnchangedByHandler

\* InteractivePDFLabel.mouseMoveEvent, the moving_rect branch, for a pointer
\* delta that is (delta_pdf_x, delta_pdf_y) in PDF units: the bounds of coord
Moved(coord, delta_pdf_x, delta_pdf_y) ==
    LET x1 == Max(0, coord.x1 + delta_pdf_x)
        x2 == Max(x1, coord.x2 + delta_pdf_x)
        y1 == Max(0, coord.y1 - delta_pdf_y)
        y2 == Max(y1, coord.y2 - delta_pdf_y)
    IN <<x1, y1, x2, y2>>

\* the viewer's and the editor's record of the region (find_coordinate_by_id)
Displayed(coord_id) ==
    viewer_coordinates[FirstIndexOf(viewer_coordinates, coord_id, 1)]

\* a drag of the displayed rectangle coord_id: mouseMoveEvent, then
\* mouseReleaseEvent emits rectangle_moved -> on_rectangle_moved
UserMoves(coord_id, delta_pdf_x, delta_pdf_y) ==
    /\ UIReady
    /\ coord_id \in Ids(viewer_coordinates)
    /\ LET rect == Moved(Displayed(coord_id), delta_pdf_x, delta_pdf_y)
           i == FirstIndexOf(coordinates, coord_id, 1)
       IN /\ SetMW(OnRectangleMoved(MW, coord_id, rect[1], rect[2], rect[3], rect[4]))
          /\ last' = Op("rectangle_moved",
                        IF i = 0 THEN 0 ELSE coordinates[i].page, coord_id, i # 0)
          /\ UNCHANGED current_session
          /\ ledger' = IF i = 0 THEN ledger
                       ELSE LedgerEdited(ledger, coordinates[i], rect)
    /\ Bump("user_ops")
    /\ UNCHANGED events
    /\ UnchangedByHandler

\* the editor panel: the region coord_id is selected, the four spin boxes are
\* set to rect, the page and the check box are left as loaded, Apply is
\* pressed -> update_coordinate
UserApplies(coord_id, rect) ==
    /\ UIReady
    /\ coord_id \in Ids(viewer_coordinates)
    /\ LET updates == ApplyChanges(rect[1], rect[2], rect[3], rect[4],
                                   Displayed(coord_id).page,
                                   Displayed(coord_id).user_created)
           i == FirstIndexOf(coordinates, coord_id, 1)
       IN /\ SetMW(UpdateCoordinate(MW, coord_id, updates))
          /\ last' = Op("apply_changes",
                        IF i = 0 THEN 0 ELSE coordinates[i].page, coord_id, i # 0)
          /\ UNCHANGED current_session
          /\ ledger' = IF i = 0 THEN ledger
                       ELSE LedgerEdited(ledger, coordinates[i],
                                         <<updates.x1, updates.y1,
                                           updates.x2, updates.y2>>)
    /\ Bump("user_ops")
    /\ UNCHANGED events
    /\ UnchangedByHandler

\* what the handlers of the page label leave alone
UnchangedByLabel ==
    UNCHANGED <<current_pdf_path, total_pages, custom_batch_worker,
                batch_worker, extraction_worker, ui_pc, returned_ids,
                returned_list>>

\* TableViewer.zoom_changed -> InteractivePDFLabel.set_scale_factor
ZoomChanged(value) ==
    /\ UIReady
    /\ value # pdf_label.scale_factor
    /\ pdf_label' = [pdf_label EXCEPT !.scale_factor = value]
    /\ UNCHANGED <<coordinates, next_id, all_extracted_coordinates,
                   viewer_coordinates, events, counters, last, ledger, current_session>>
    /\ UnchangedByLabel

\* the window is resized: the label's size, hence the offsets that centre the
\* pixmap, change
Resized(x_offset, y_offset) ==
    /\ UIReady
    /\ <<x_offset, y_offset>> # <<pdf_label.x_offset, pdf_label.y_offset>>
    /\ pdf_label' = [pdf_label EXCEPT !.x_offset = x_offset, !.y_offset = y_offset]
    /\ UNCHANGED <<coordinates, next_id, all_extracted_coordinates,
                   viewer_coordinates, events, counters, last, ledger, current_session>>
    /\ UnchangedByLabel

\* TableViewer.go_to_page -> update_page_display: the page is rendered and
\* the label is told its number (on_page_changed tells only the editor)
GoToPage(page_num) ==
    /\ UIReady
    /\ current_pdf_path # NoPath
    /\ 0 <= page_num /\ page_num < total_pages
    /\ page_num # pdf_label.current_page
    /\ pdf_label' = [pdf_label EXCEPT !.pixmap_height = RenderFactor * PageHeight,
                                      !.current_page = page_num]
    /\ UNCHANGED <<coordinates, next_id, all_extracted_coordinates,
                   viewer_coordinates, events, counters, last, ledger, current_session>>
    /\ UnchangedByLabel

\* InteractivePDFLabel.mousePressEvent, left button, on no handle and no
\* rectangle: a new rectangle is begun
MousePressEvent(pos) ==
    /\ UIReady
    /\ pdf_label.selected_rect_id = 0
    /\ RectAtPos(pdf_label, viewer_coordinates, pos) = 0
    /\ pdf_label' = [pdf_label EXCEPT !.selected_rect_id = 0,
                                      !.drawing_new_rect = TRUE,
                                      !.start_pos = pos, !.current_pos = pos]
    /\ Bump("user_ops")
    /\ last' = Op("mouse_press", pdf_label.current_page, 0, TRUE)
    /\ UNCHANGED <<coordinates, next_id, all_extracted_coordinates,
                   viewer_coordinates, events, ledger, current_session>>
    /\ UnchangedByLabel

\* InteractivePDFLabel.mouseMoveEvent while a new rectangle is drawn
MouseMoveEvent(pos) ==
    /\ UIReady
    /\ pdf_label.drawing_new_rect
    /\ pos # pdf_label.current_pos
    /\ pdf_label' = [pdf_label EXCEPT !.current_pos = pos]
    /\ last' = Op("mouse_move", pdf_label.current_page, 0, TRUE)
    /\ UNCHANGED <<coordinates, next_id, all_extracted_coordinates,
                   viewer_coordinates, events, counters, ledger, current_session>>
    /\ UnchangedByLabel

\* InteractivePDFLabel.mouseReleaseEvent, left button, while a new rectangle is
\* drawn: new_rectangle_created is emitted for a rectangle that is large
\* enough and MainWindow.create_user_coordinate runs
MouseReleaseEvent ==
    /\ UIReady
    /\ pdf_label.drawing_new_rect
    /\ LET screen_rect == Normalized(pdf_label.start_pos, pdf_label.current_pos)
           coord_dict == ScreenToCoordRect(pdf_label, screen_rect,
                                           pdf_label.x_offset, pdf_label.y_offset)
           emitted == pdf_label.pixmap_height # 0 /\ LargeEnough(screen_rect)
       IN /\ IF emitted
             THEN /\ SetMW(CreateUserCoordinate(MW, pdf_label.current_page,
                                                coord_dict.x1, coord_dict.y1,
                                                coord_dict.x2, coord_dict.y2))
                  /\ current_session' = SessionAdded(current_session,
                         <<coordinates'[Len(coordinates')]>>)
                  /\ ledger' = LedgerDrawn(ledger, pdf_label.current_page,
                                   UserCoordinate(pdf_label.current_page,
                                                  coord_dict.x1, coord_dict.y1,
                                                  coord_dict.x2, coord_dict.y2))
             ELSE UNCHANGED <<coordinates, next_id, all_extracted_coordinates,
                              viewer_coordinates, ledger, current_session>>
          /\ last' = Op("mouse_release", pdf_label.current_page,
                        IF emitted THEN next_id ELSE 0, emitted)
    /\ pdf_label' = [pdf_label EXCEPT !.drawing_new_rect = FALSE]
    /\ UNCHANGED <<events, counters>>
    /\ UnchangedByLabel

\* the list the label holds: the displayed regions of the page shown
\* (update_page_display: page_coords)
PageCoords ==
    SelectSeq(viewer_coordinates, LAMBDA c : c.page = pdf_label.current_page)

\* no button is held
NoGesture ==
    /\ ~pdf_label.drawing_new_rect
    /\ ~pdf_label.moving_rect
    /\ ~pdf_label.resizing_rect

\* the label's dicts are the ones update_coordinates_display handed over:
\* get_all_coordinates copies the list and not its dicts, and all_coords,
\* TableViewer.coordinates and page_coords are lists of the same dicts. The
\* dict of a displayed region is then the store's dict, or the accumulator's
\* for an id the store does not hold.
DisplayShared ==
    viewer_coordinates = UpdateCoordinatesDisplay(MW).viewer_coordinates

\* coord['x1'] = ... to coord['height'] = ... in mouseMoveEvent on such a dict
WrittenThrough(m, coord_id, rect) ==
    LET updates == [x1 |-> rect[1], y1 |-> rect[2], x2 |-> rect[3], y2 |-> rect[4],
                    width |-> rect[3] - rect[1], height |-> rect[4] - rect[2]]
        i == FirstIndexOf(m.coordinates, coord_id, 1)
        j == FirstIndexOf(m.all_extracted_coordinates, coord_id, 1)
        v == FirstIndexOf(m.viewer_coordinates, coord_id, 1)
    IN [m EXCEPT
          !.coordinates = IF i = 0 THEN @ ELSE [@ EXCEPT ![i] = Merge(@, updates)],
          !.all_extracted_coordinates =
              IF i # 0 \/ j = 0 THEN @ ELSE [@ EXCEPT ![j] = Merge(@, updates)],
          !.viewer_coordinates =
              [@ EXCEPT ![v] = [@ EXCEPT !.x1 = rect[1], !.y1 = rect[2],
                                         !.x2 = rect[3], !.y2 = rect[4]]]]

\* mouseMoveEvent, the resizing_rect branch: pdf_y = page_pixmap.height() /
\* (2.0 * scale_factor) - (pos.y() - y_offset) / (2.0 * scale_factor)
PdfY(label, pos) ==
    ToPdf(label, label.pixmap_height) - ToPdf(label, pos[2] - label.y_offset)

\* mouseMoveEvent, the resizing_rect branch, with the floor left out
ResizedBoundsUnfloored(label, coord, resize_handle, pos) ==
    LET pdf_x == ToPdf(label, pos[1] - label.x_offset)
        pdf_y == PdfY(label, pos)
        x1 == IF resize_handle \in {"tl", "l", "bl"} THEN pdf_x ELSE coord.x1
        x2 == IF resize_handle \in {"tr", "r", "br"} THEN pdf_x ELSE coord.x2
        y2 == IF resize_handle \in {"tl", "t", "tr"} THEN pdf_y ELSE coord.y2
        y1 == IF resize_handle \in {"bl", "b", "br"} THEN pdf_y ELSE coord.y1
    IN <<x1, y1, x2, y2>>

\* mouseMoveEvent, the resizing_rect branch: the bounds of coord for the
\* handle held and the pointer at pos
ResizedBounds(label, coord, resize_handle, pos) ==
    LET pdf_x == ToPdf(label, pos[1] - label.x_offset)
        pdf_y == PdfY(label, pos)
        x1 == IF resize_handle \in {"tl", "l", "bl"}
              THEN Min(pdf_x, coord.x2 - MinResizeSize * Unit) ELSE coord.x1
        x2 == IF resize_handle \in {"tr", "r", "br"}
              THEN Max(pdf_x, x1 + MinResizeSize * Unit) ELSE coord.x2
        y2 == IF resize_handle \in {"tl", "t", "tr"}
              THEN Max(pdf_y, coord.y1 + MinResizeSize * Unit) ELSE coord.y2
        y1 == IF resize_handle \in {"bl", "b", "br"}
              THEN Min(pdf_y, y2 - MinResizeSize * Unit) ELSE coord.y1
    IN <<x1, y1, x2, y2>>

\* mousePressEvent, left button, on a handle of the selected rectangle
MousePressEventOnHandle(pos) ==
    /\ UIReady /\ NoGesture
    /\ ResizeHandleAtPos(pdf_label, PageCoords, pos) # ""
    /\ pdf_label' = [pdf_label EXCEPT
           !.resizing_rect = TRUE,
           !.resize_handle = ResizeHandleAtPos(pdf_label, PageCoords, pos),
           !.start_pos = pos]
    /\ Bump("user_ops")
    /\ last' = Op("mouse_press", pdf_label.current_page,
                  pdf_label.selected_rect_id, TRUE)
    /\ UNCHANGED <<coordinates, next_id, all_extracted_coordinates,
                   viewer_coordinates, events, ledger, current_session>>
    /\ UnchangedByLabel

\* mousePressEvent, left button, on no handle and on a rectangle: it is
\* selected and a move begins
MousePressEventOnRect(pos) ==
    /\ UIReady /\ NoGesture
    /\ ResizeHandleAtPos(pdf_label, PageCoords, pos) = ""
    /\ RectAtPos(pdf_label, viewer_coordinates, pos) # 0
    /\ pdf_label' = [pdf_label EXCEPT
           !.selected_rect_id = RectAtPos(pdf_label, viewer_coordinates, pos),
           !.moving_rect = TRUE,
           !.start_pos = pos]
    /\ Bump("user_ops")
    /\ last' = Op("mouse_press", pdf_label.current_page,
                  RectAtPos(pdf_label, viewer_coordinates, pos), TRUE)
    /\ UNCHANGED <<coordinates, next_id, all_extracted_coordinates,
                   viewer_coordinates, events, ledger, current_session>>
    /\ UnchangedByLabel

\* the write of mouseMoveEvent to the dict of the selected rectangle
DictWritten(rect) ==
    LET i == FirstIndexOf(coordinates, pdf_label.selected_rect_id, 1) IN
    /\ SetMW(WrittenThrough(MW, pdf_label.selected_rect_id, rect))
    /\ UNCHANGED current_session
    /\ ledger' = IF i = 0 THEN ledger
                 ELSE LedgerEdited(ledger, coordinates[i], rect)

\* mouseMoveEvent while a rectangle is moved
MouseMoveEventMoving(pos) ==
    /\ UIReady
    /\ pdf_label.moving_rect /\ pdf_label.selected_rect_id # 0
    /\ DisplayShared
    /\ pos # pdf_label.start_pos
    /\ LET i == FirstIndexOf(PageCoords, pdf_label.selected_rect_id, 1) IN
       IF i # 0 /\ pdf_label.pixmap_height # 0
       THEN DictWritten(Moved(PageCoords[i],
                   ToPdf(pdf_label, pos[1] - pdf_label.start_pos[1]),
                   ToPdf(pdf_label, pos[2] - pdf_label.start_pos[2])))
       ELSE UNCHANGED <<coordinates, next_id, all_extracted_coordinates,
                        viewer_coordinates, ledger, current_session>>
    /\ pdf_label' = [pdf_label EXCEPT !.start_pos = pos]
    /\ Bump("user_ops")
    /\ last' = Op("mouse_move", pdf_label.current_page,
                  pdf_label.selected_rect_id, TRUE)
    /\ UNCHANGED events
    /\ UnchangedByLabel

\* mouseMoveEvent while a rectangle is resized
MouseMoveEventResizing(pos) ==
    /\ UIReady
    /\ pdf_label.resizing_rect /\ pdf_label.selected_rect_id # 0
    /\ DisplayShared
    /\ LET i == FirstIndexOf(PageCoords, pdf_label.selected_rect_id, 1) IN
       IF i # 0 /\ pdf_label.pixmap_height # 0
       THEN DictWritten(ResizedBounds(pdf_label, PageCoords[i],
                                      pdf_label.resize_handle, pos))
       ELSE UNCHANGED <<coordinates, next_id, all_extracted_coordinates,
                        viewer_coordinates, ledger, current_session>>
    /\ Bump("user_ops")
    /\ last' = Op("mouse_move", pdf_label.current_page,
                  pdf_label.selected_rect_id, TRUE)
    /\ UNCHANGED <<events, pdf_label>>
    /\ UnchangedByLabel

\* mouseReleaseEvent, left button, while a rectangle is moved or resized:
\* rectangle_moved is emitted with the dict's bounds -> on_rectangle_moved
MouseReleaseEventMoved ==
    /\ UIReady
    /\ ~pdf_label.drawing_new_rect
    /\ pdf_label.moving_rect \/ pdf_label.resizing_rect
    /\ LET i == FirstIndexOf(PageCoords, pdf_label.selected_rect_id, 1) IN
       /\ IF pdf_label.selected_rect_id # 0 /\ i # 0
          THEN SetMW(OnRectangleMoved(MW, pdf_label.selected_rect_id,
                                      PageCoords[i].x1, PageCoords[i].y1,
                                      PageCoords[i].x2, PageCoords[i].y2))
          ELSE UNCHANGED <<coordinates, next_id, all_extracted_coordinates,
                           viewer_coordinates>>
       /\ last' = Op("rectangle_moved", pdf_label.current_page,
                     pdf_label.selected_rect_id,
                     pdf_label.selected_rect_id # 0 /\ i # 0)
    /\ pdf_label' = IF pdf_label.moving_rect
                    THEN [pdf_label EXCEPT !.moving_rect = FALSE]
                    ELSE [pdf_label EXCEPT !.resizing_rect = FALSE,
                                           !.resize_handle = ""]
    /\ UNCHANGED <<events, counters, ledger, current_session>>
    /\ UnchangedByLabel

\* paintEvent and _get_rect_at_pos: the screen rectangle of the first
\* displayed region
ScreenRectComputed ==
    /\ viewer_coordinates # <<>>
    /\ pdf_label.screen_rect = {}
    /\ pdf_label' = [pdf_label EXCEPT !.screen_rect =
           {CoordToScreenRect(pdf_label, viewer_coordinates[1],
                              pdf_label.x_offset, pdf_label.y_offset)}]
    /\ UNCHANGED <<coordinates, next_id, all_extracted_coordinates,
                   viewer_coordinates, events, counters, last, ledger, current_session>>
    /\ UnchangedByLabel

\* _screen_to_coord_rect applied to that screen rectangle
CoordDictComputed ==
    /\ pdf_label.screen_rect # {}
    /\ pdf_label.coord_dict = {}
    /\ pdf_label' = [pdf_label EXCEPT !.coord_dict =
           {ScreenToCoordRect(pdf_label, screen_rect,
                              pdf_label.x_offset, pdf_label.y_offset) :
                screen_rect \in pdf_label.screen_rect}]
    /\ UNCHANGED <<coordinates, next_id, all_extracted_coordinates,
                   viewer_coordinates, events, counters, last, ledger, current_session>>
    /\ UnchangedByLabel

\* ---------------------------------------------- the store's methods, called
\* directly (SpecStore)

Payloads ==
    [id : {NoId, TempId, 1, 2}, page : {0}, x1 : {1}, y1 : {1}, x2 : {3},
     y2 : {2}, width : {2}, height : {1}, user_created : BOOLEAN]

UnchangedByStore ==
    UNCHANGED <<all_extracted_coordinates, viewer_coordinates, current_pdf_path,
                total_pages, custom_batch_worker, batch_worker,
                extraction_worker, events, ui_pc, ledger, current_session, pdf_label>>

\* coordinates_manager.add_coordinate(coordinate)
AddCoordinateCall(coordinate) ==
    /\ LET r == AddCoordinate(Store, coordinate) IN
       /\ coordinates' = r.coordinates
       /\ next_id' = r.next_id
       /\ returned_ids' = Append(returned_ids, [given |-> coordinate.id, id |-> r.id])
       /\ UNCHANGED returned_list
       /\ last' = Op("add_coordinate", coordinate.page, r.id, TRUE)
    /\ Bump("store_ops")
    /\ UnchangedByStore

\* coordinates_manager.remove_coordinate(coord_id)
RemoveCoordinateCall(coord_id) ==
    /\ LET r == RemoveCoordinate(Store, coord_id) IN
       /\ coordinates' = r.coordinates
       /\ next_id' = r.next_id
       /\ last' = Op("remove_coordinate", 0, coord_id, r.ok)
    /\ Bump("store_ops")
    /\ UNCHANGED <<returned_ids, returned_list>>
    /\ UnchangedByStore

\* coordinates_manager.create_user_coordinate(page, x1, y1, x2, y2)
CreateUserCoordinateCall(page, rect) ==
    /\ LET r == CreateUserCoordinateInStore(Store, page, rect[1], rect[2],
                                            rect[3], rect[4]) IN
       /\ coordinates' = r.coordinates
       /\ next_id' = r.next_id
       /\ last' = Op("create_user_coordinate", page, r.id, TRUE)
    /\ Bump("store_ops")
    /\ UNCHANGED <<returned_ids, returned_list>>
    /\ UnchangedByStore

\* coordinates_manager.update_coordinate(coord_id, updates)
UpdateCoordinateCall(coord_id, updates) ==
    /\ LET r == UpdateCoordinateInStore(Store, coord_id, updates) IN
       /\ coordinates' = r.coordinates
       /\ next_id' = r.next_id
       /\ last' = Op("update_coordinate", 0, coord_id, r.ok)
    /\ Bump("store_ops")
    /\ UNCHANGED <<returned_ids, returned_list>>
    /\ UnchangedByStore

\* all_coords = coordinates_manager.get_all_coordinates(): self.coordinates.copy(),
\* a new list of the same dicts
GetAllCoordinates(store) == IdList(store.coordinates)

GetAllCoordinatesCall ==
    /\ returned_list' = GetAllCoordinates(Store)
    /\ last' = Op("get_all_coordinates", 0, 0, TRUE)
    /\ Bump("store_ops")
    /\ UNCHANGED <<coordinates, next_id, returned_ids>>
    /\ UnchangedByStore

Reversed(seq) == [i \in 1..Len(seq) |-> seq[Len(seq) + 1 - i]]

\* the caller changes the list it got: del all_coords[0], all_coords.append(a
\* dict of its own), all_coords.reverse()
CallerChangesList ==
    /\ returned_list # <<>>
    /\ returned_list' \in {Tail(returned_list), Append(returned_list, 0),
                           Reversed(returned_list)}
    /\ returned_list' # returned_list
    /\ last' = Op("caller_list", 0, 0, TRUE)
    /\ Bump("store_ops")
    /\ UNCHANGED <<coordinates, next_id, returned_ids>>
    /\ UnchangedByStore

\* the caller changes a field of a dict of the list it got:
\* all_coords[i]['x2'] = value. The dict is the store's own while the store
\* holds it.
CallerChangesRecord(i, value) ==
    /\ i \in 1..Len(returned_list)
    /\ LET r == UpdateCoordinateInStore(Store, returned_list[i], [x2 |-> value]) IN
       /\ coordinates' = r.coordinates
       /\ last' = Op("caller_record", 0, returned_list[i], r.ok)
    /\ Bump("store_ops")
    /\ UNCHANGED <<next_id, returned_ids, returned_list>>
    /\ UnchangedByStore

\* ------------------------------------------------------------ specifications

\* Spec: one document, range jobs of the custom worker in chunks of
\* MaxBatchSize pages, draw and delete gestures, stop requests.
OpenDocument == counters.loads < MaxLoads /\ LoadPdf(counters.loads + 1)

ExtractRange ==
    /\ counters.jobs < MaxJobs
    /\ \E a, b \in Pages1 : StartCustomBatchExtraction(a, b, MaxBatchSize)

Draw ==
    /\ counters.user_ops < MaxUserOps
    /\ \E page \in Pages0, rect \in UserRects : UserCreates(page, rect)

Delete ==
    /\ counters.user_ops < MaxUserOps
    /\ \E coord_id \in Ids(viewer_coordinates) : UserDeletes(coord_id)

Next ==
    \/ OpenDocument
    \/ ExtractRange
    \/ StopExtraction
    \/ StopExtractionResume
    \/ \E k \in WorkerKinds : RunOpen(k)
    \/ \E k \in WorkerKinds : RunChunk(k)
    \/ \E k \in WorkerKinds : RunPage(k)
    \/ \E k \in WorkerKinds : RunFinish(k)
    \/ PageCompleted
    \/ BatchCompleted
    \/ ErrorReported
    \/ Draw
    \/ Delete

Spec == Init /\ [][Next]_vars

\* SpecAll: documents opened one after another, jobs of the three kinds of
\* worker (range jobs page by page, whole-document jobs in chunks of
\* MaxBatchSize pages), stop requests; no gestures.
OpenNextDocument == counters.loads < MaxSessions /\ LoadPdf(counters.loads + 1)

ExtractAny ==
    /\ counters.jobs < MaxJobsAll
    /\ \/ \E a, b \in Pages1 : StartCustomBatchExtraction(a, b, 1)
       \/ StartBatchExtraction(MaxBatchSize)
       \/ \E page \in Pages0 : StartExtraction(page)

NextAll ==
    \/ OpenNextDocument
    \/ ExtractAny
    \/ StopExtraction
    \/ StopExtractionResume
    \/ \E k \in WorkerKinds : RunOpen(k)
    \/ \E k \in WorkerKinds : RunChunk(k)
    \/ \E k \in WorkerKinds : RunPage(k)
    \/ \E k \in WorkerKinds : RunFinish(k)
    \/ RunExtraction
    \/ PageCompleted
    \/ BatchCompleted
    \/ ErrorReported
    \/ ExtractionFinished

SpecAll == Init /\ [][NextAll]_vars

\* SpecEdit: one document, jobs of the custom worker over the whole document
\* in one chunk, and the gestures on regions: draw, delete (of any id), move
\* and the editor panel's Apply.
ExtractWhole ==
    /\ counters.jobs < MaxJobs
    /\ StartCustomBatchExtraction(1, NumPages, MaxBatchSize)

DeleteAny ==
    /\ counters.user_ops < MaxUserOps
    /\ \E coord_id \in 1..MaxId : UserDeletes(coord_id)

Move ==
    /\ counters.user_ops < MaxUserOps
    /\ \E coord_id \in Ids(viewer_coordinates), delta \in MoveDeltas :
           UserMoves(coord_id, delta[1], delta[2])

Apply ==
    /\ counters.user_ops < MaxUserOps
    /\ \E coord_id \in Ids(viewer_coordinates), rect \in EditRects :
           UserApplies(coord_id, rect)

NextEdit ==
    \/ OpenDocument
    \/ ExtractWhole
    \/ \E k \in WorkerKinds : RunOpen(k)
    \/ \E k \in WorkerKinds : RunChunk(k)
    \/ \E k \in WorkerKinds : RunPage(k)
    \/ \E k \in WorkerKinds : RunFinish(k)
    \/ PageCompleted
    \/ BatchCompleted
    \/ ErrorReported
    \/ Draw
    \/ DeleteAny
    \/ Move
    \/ Apply

SpecEdit == Init /\ [][NextEdit]_vars

\* SpecStore: add_coordinate and remove_coordinate called on a fresh store
\* with arbitrary payloads and ids.
StoreAdd ==
    /\ counters.store_ops < MaxStoreOps
    /\ \E coordinate \in Payloads : AddCoordinateCall(coordinate)

StoreRemove ==
    /\ counters.store_ops < MaxStoreOps
    /\ \E coord_id \in 1..(MaxStoreOps + 1) : RemoveCoordinateCall(coord_id)

NextStore == StoreAdd \/ StoreRemove

SpecStore == Init /\ [][NextStore]_vars

\* SpecRecords: the store's methods called on a fresh store with payloads and
\* updates of every shape, and a caller that changes what get_all_coordinates
\* returned.
RecordsBound == counters.store_ops < MaxRecordOps

RecordAdd == RecordsBound /\ \E coordinate \in RecordPayloads : AddCoordinateCall(coordinate)

RecordCreate ==
    RecordsBound /\ \E rect \in UserRects : CreateUserCoordinateCall(0, rect)

RecordUpdate ==
    /\ RecordsBound
    /\ \E coord_id \in 1..MaxRecordOps, updates \in RecordUpdates :
           UpdateCoordinateCall(coord_id, updates)

RecordRemove ==
    RecordsBound /\ \E coord_id \in 1..MaxRecordOps : RemoveCoordinateCall(coord_id)

RecordGetAll == RecordsBound /\ GetAllCoordinatesCall

CallerList == RecordsBound /\ CallerChangesList

CallerRecord ==
    RecordsBound /\ \E i \in 1..MaxRecordOps : CallerChangesRecord(i, 9)

NextRecords ==
    \/ RecordAdd
    \/ RecordCreate
    \/ RecordUpdate
    \/ RecordRemove
    \/ RecordGetAll
    \/ CallerList
    \/ CallerRecord

SpecRecords == Init /\ [][NextRecords]_vars

\* SpecWorker: the two batch workers constructed and started directly, as in
\* examples/page_range_usage.py, with any range and chunk size, and stopped;
\* their notifications stay in the queue.
WorkerStarted(k, batch_size, start_page, end_page) ==
    /\ ~IsRunning(W(k))
    /\ SetW(k, NewWorker(1, batch_size, start_page, end_page))
    /\ Bump("jobs")
    /\ last' = Op("worker_start", 0, 0, TRUE)
    /\ UNCHANGED <<coordinates, next_id, all_extracted_coordinates,
                   viewer_coordinates, current_pdf_path, total_pages,
                   extraction_worker, events, ui_pc, ledger, current_session, returned_ids,
                   returned_list, pdf_label>>

WorkerStopped(k) ==
    /\ IsRunning(W(k)) /\ ~W(k).should_stop
    /\ SetW(k, Stop(W(k)))
    /\ last' = Op("worker_stop", 0, 0, TRUE)
    /\ UNCHANGED <<coordinates, next_id, all_extracted_coordinates,
                   viewer_coordinates, current_pdf_path, total_pages,
                   extraction_worker, events, ui_pc, counters, ledger, current_session,
                   returned_ids, returned_list, pdf_label>>

StartWorker ==
    /\ counters.jobs < MaxJobs
    /\ \/ \E batch_size \in 1..MaxBatchSize, start_page, end_page \in 0..NumPages + 1 :
              WorkerStarted("custom", batch_size, start_page, end_page)
       \/ \E batch_size \in 1..MaxBatchSize : WorkerStarted("batch", batch_size, 1, 0)

NextWorker ==
    \/ StartWorker
    \/ \E k \in WorkerKinds : WorkerStopped(k)
    \/ \E k \in WorkerKinds : RunOpen(k)
    \/ \E k \in WorkerKinds : RunChunk(k)
    \/ \E k \in WorkerKinds : RunPage(k)
    \/ \E k \in WorkerKinds : RunFinish(k)

SpecWorker == Init /\ [][NextWorker]_vars

\* SpecRun: one batch worker constructed with any range and chunk size,
\* started, possibly stopped, and run by its thread: a started QThread keeps
\* being scheduled, and every call it makes (fitz.open, camelot.read_pdf)
\* returns or raises, so a step of run() that stays possible is eventually
\* taken. The batch size is a value of batch_size_spinbox (minimum 1).
StartRun ==
    /\ counters.jobs < MaxRuns
    /\ \/ \E batch_size \in 1..MaxBatchSize, start_page, end_page \in 0..NumPages + 1 :
              WorkerStarted("custom", batch_size, start_page, end_page)
       \/ \E batch_size \in 1..MaxBatchSize : WorkerStarted("batch", batch_size, 1, 0)

RunStep(k) == RunOpen(k) \/ RunChunk(k) \/ RunPage(k) \/ RunFinish(k)

NextRun ==
    \/ StartRun
    \/ \E k \in WorkerKinds : WorkerStopped(k)
    \/ \E k \in WorkerKinds : RunOpen(k)
    \/ \E k \in WorkerKinds : RunChunk(k)
    \/ \E k \in WorkerKinds : RunPage(k)
    \/ \E k \in WorkerKinds : RunFinish(k)

SpecRun == Init /\ [][NextRun]_vars /\ \A k \in WorkerKinds : WF_vars(RunStep(k))

\* SpecGesture: one document, draw gestures on free parts of the page at the
\* zooms of Zooms and the offsets of Offsets.
Zoom == \E value \in Zooms : ZoomChanged(value)

Resize == \E x_offset \in Offsets, y_offset \in Offsets : Resized(x_offset, y_offset)

Press ==
    /\ counters.user_ops < MaxGestures
    /\ \E pos \in Positions : MousePressEvent(pos)

Drag == \E pos \in Positions : MouseMoveEvent(pos)

NextGesture ==
    \/ OpenDocument
    \/ \E page_num \in Pages0 : GoToPage(page_num)
    \/ Zoom
    \/ Resize
    \/ Press
    \/ Drag
    \/ MouseReleaseEvent

SpecGesture == Init /\ [][NextGesture]_vars

\* SpecDrag: one document, regions drawn on its first page, then selected,
\* moved and resized with the pointer at the zooms of Zooms. Every list the
\* viewer is handed comes from update_coordinates_display.
DrawForDrag ==
    /\ counters.user_ops < MaxDragOps
    /\ Len(coordinates) < Cardinality(DragRects)
    /\ NoGesture
    /\ \E rect \in DragRects : UserCreates(0, rect)

PressHandle ==
    /\ counters.user_ops < MaxDragOps
    /\ \E pos \in DragPositions : MousePressEventOnHandle(pos)

PressRect ==
    /\ counters.user_ops < MaxDragOps
    /\ \E pos \in DragPositions : MousePressEventOnRect(pos)

DragMoving ==
    /\ counters.user_ops < MaxDragOps
    /\ \E pos \in DragPositions : MouseMoveEventMoving(pos)

DragResizing ==
    /\ counters.user_ops < MaxDragOps
    /\ \E pos \in DragPositions : MouseMoveEventResizing(pos)

NextDrag ==
    \/ OpenDocument
    \/ DrawForDrag
    \/ Zoom
    \/ PressHandle
    \/ PressRect
    \/ DragMoving
    \/ DragResizing
    \/ MouseReleaseEventMoved

SpecDrag == Init /\ [][NextDrag]_vars

\* SpecGeometry: a document is open and a region with the bounds of
\* GeometryRects, created through the editor panel, is displayed on its first
\* page at a zoom of Zooms and offsets of Offsets; the two conversions of the
\* label are applied to it one after the other.
DisplayedRegion(rect) ==
    [id |-> FirstUserId, page |-> 0, x1 |-> rect[1], y1 |-> rect[2],
     x2 |-> rect[3], y2 |-> rect[4], width |-> rect[3] - rect[1],
     height |-> rect[4] - rect[2], user_created |-> TRUE]

InitGeometry ==
    /\ \E rect \in GeometryRects :
           /\ coordinates = <<DisplayedRegion(rect)>>
           /\ viewer_coordinates = ViewerList(coordinates)
           /\ current_session = SessionAdded(<<>>, coordinates)
    /\ next_id = FirstUserId + 1
    /\ all_extracted_coordinates = <<>>
    /\ current_pdf_path = 1
    /\ total_pages = PageCount(1)
    /\ custom_batch_worker = NoWorker
    /\ batch_worker = NoWorker
    /\ extraction_worker = NoExtractionWorker
    /\ events = <<>>
    /\ ui_pc = "idle"
    /\ counters = [jobs |-> 0, loads |-> 1, user_ops |-> 1, store_ops |-> 0]
    /\ last = Op("create_coordinate", 0, FirstUserId, TRUE)
    /\ ledger = EmptyLedger
    /\ returned_ids = <<>>
    /\ returned_list = <<>>
    /\ \E value \in Zooms, x_offset \in Offsets, y_offset \in Offsets :
           pdf_label = [PageShown(NoPixmap, 1) EXCEPT !.scale_factor = value,
                                                      !.x_offset = x_offset,
                                                      !.y_offset = y_offset]

NextGeometry == ScreenRectComputed \/ CoordDictComputed

SpecGeometry == InitGeometry /\ [][NextGeometry]_vars


\* ------------------------------------------------------------------ claims

\* Regions as the properties compare them.
Key(c) == <<c.page, c.x1, c.y1, c.x2, c.y2, c.user_created>>
Keys(cs) == [i \in 1..Len(cs) |-> Key(cs[i])]
PageRect(c) == <<c.page, c.x1, c.y1, c.x2, c.y2>>
PageRects(cs) == [i \in 1..Len(cs) |-> PageRect(cs[i])]
MachineKeys(q, rects) ==
    [i \in 1..Len(rects) |->
        <<q, rects[i][1], rects[i][2], rects[i][3], rects[i][4], FALSE>>]
Elems(seq) == {seq[i] : i \in 1..Len(seq)}
Count(seq, x) == Cardinality({i \in 1..Len(seq) : seq[i] = x})
SameBag(a, b) == \A x \in Elems(a) \cup Elems(b) : Count(a, x) = Count(b, x)
SubBag(a, b) == \A x \in Elems(a) : Count(a, x) <= Count(b, x)
UserOn(cs, q) == SelectSeq(cs, LAMBDA c : c.page = q /\ c.user_created)
MachineOn(cs, q) == SelectSeq(cs, LAMBDA c : c.page = q /\ ~c.user_created)

\* the step in which the UI thread handles the notification at the head of
\* the queue
Handles(sig) ==
    UIReady /\ events # <<>> /\ Head(events).sig = sig /\ events' = Tail(events)

\* C1: when on_page_extraction_completed has handled page_completed(p, D),
\* the store's regions for the page p of the notification are exactly the
\* regions of D plus the user_created regions the page had before, with page,
\* x1, y1, x2, y2 and user_created unchanged; the machine regions the page had
\* before are gone.
C1_PageReconciled ==
    [][Handles("page_completed") =>
         LET q == Head(events).page_number - 1
             D == Head(events).coordinates
         IN SameBag(Keys(GetCoordinatesForPage(coordinates', q)),
                    Keys(D \o UserOn(coordinates, q)))]_vars

\* no job is running and no notification waits to be handled
Quiescent == UIReady /\ events = <<>> /\ ~AnyRunning

\* C2: after any sequence of batch jobs, draw and delete gestures, the store
\* holds for every page exactly the regions most recently detected for the
\* page and not deleted since, plus the page's user_created regions.
C2_StoreIsLatestPlusUser ==
    (Quiescent /\ counters.jobs > 0) =>
        \A q \in Pages0 :
            /\ SameBag(Rects(MachineOn(coordinates, q)), ledger.detected[q])
            /\ SameBag(Rects(UserOn(coordinates, q)), ledger.drawn[q])

\* C3: a user_created region drawn while a batch job is running (started and
\* its batch_completed not yet handled) or between two jobs is in the store,
\* with the same page and coordinates, when on_batch_extraction_completed has
\* handled the job's batch_completed.
C3_UserRegionsSurviveCompletion ==
    [][Handles("batch_completed") =>
         \A q \in Pages0 :
             SubBag(ledger.late[q], Rects(UserOn(coordinates', q)))]_vars

\* the list holds neither the id of d nor a machine region with its page and
\* coordinates
Absent(cs, d) ==
    \A i \in 1..Len(cs) :
        /\ cs[i].id # d.id
        /\ ~(~cs[i].user_created /\ cs[i].page = d.page /\ Rect(cs[i]) = d.rect)

\* C4: a region deleted by delete_coordinate after its page was reconciled in
\* a running job (started and its batch_completed not yet handled) is, when on_batch_extraction_completed has handled the job's
\* batch_completed, in none of the store, all_extracted_coordinates and the
\* displayed list: neither its id nor a machine region with its page and
\* coordinates.
C4_DeletedStaysDeleted ==
    [][Handles("batch_completed") =>
         \A d \in ledger.deleted :
             d.job = Head(events).job =>
                 /\ Absent(coordinates', d)
                 /\ Absent(all_extracted_coordinates', d)
                 /\ Absent(viewer_coordinates', d)]_vars

\* the job of worker k was cancelled, was the last job started, was started
\* with no notification waiting, every notification of it has been handled
\* and no gesture was made since it was started
CancelledAlone(k) ==
    /\ W(k).outcome = "cancelled"
    /\ W(k).quiet
    /\ W(k).job = counters.jobs
    /\ W(k).pre_ops = counters.user_ops
    /\ W(k).pdf_path = current_pdf_path
    /\ Quiescent

\* C5: after stop() was called on a job, the store holds for each page that
\* had been reconciled by then the page's reconciled contents (the regions
\* delivered for it and the user_created regions it had) and for every page
\* the job emitted no page_completed for exactly the regions the page had
\* before the job was started.
C5_CancelKeepsPartialResults ==
    \A k \in WorkerKinds :
        CancelledAlone(k) =>
            \A q \in Pages0 :
                /\ q + 1 \in W(k).stop_reconciled =>
                       SameBag(Keys(GetCoordinatesForPage(coordinates, q)),
                               MachineKeys(q, ledger.detected[q])
                                   \o Keys(UserOn(W(k).pre, q)))
                /\ q + 1 \notin W(k).emitted =>
                       SameBag(Keys(GetCoordinatesForPage(coordinates, q)),
                               Keys(GetCoordinatesForPage(W(k).pre, q)))

\* a range job has just been started and its thread has not entered run()
JobJustStarted ==
    /\ last.op = "start_custom" /\ last.ok
    /\ custom_batch_worker.pc = "start"

\* the job just started, with another batch_size, at its while loop
JobWith(batch_size) ==
    Opened("custom", [custom_batch_worker EXCEPT !.batch_size = batch_size])

WholeRange == JobWith(1).end_page - JobWith(1).start_page + 1

\* the store after the job just started has run with the batch_size
FinalStore(batch_size, service) ==
    JobRun(MW, JobWith(batch_size), service).coordinates

Distinct(seq) == \A i, j \in 1..Len(seq) : i # j => seq[i] # seq[j]

\* C7: for any sequence of add_coordinate calls, also interleaved with
\* remove_coordinate calls, the returned ids are pairwise distinct and no two
\* regions of the store share an id, whatever id the payloads carry.
C7_IdsUnique ==
    /\ Distinct([i \in 1..Len(returned_ids) |-> returned_ids[i].id])
    /\ Distinct(IdList(coordinates))

\* two payloads carrying the same id were added, a removal happened, and a
\* further add was the last call
C7_Witness ==
    /\ last.op = "add_coordinate"
    /\ Len(coordinates) < Len(returned_ids)
    /\ Len(coordinates) >= 2
    /\ \E i, j \in 1..Len(returned_ids) :
           i # j /\ returned_ids[i].given = returned_ids[j].given
                 /\ returned_ids[i].given = 1

StartOps == {"start_custom", "start_batch", "start_extraction"}

\* the step is a request to start a job (a repeated refused request changes
\* nothing at all)
StartRequested ==
    /\ last'.op \in StartOps
    /\ last' # last \/ counters' # counters

\* C8: while one of custom_batch_worker, batch_worker and extraction_worker is
\* running, a request to start a job starts no worker, is refused as busy,
\* and changes neither the workers, the store nor all_extracted_coordinates.
C8_OneJobAtATime ==
    [][(AnyRunning /\ StartRequested) =>
         /\ ~last'.ok
         /\ counters'.jobs = counters.jobs
         /\ UNCHANGED <<custom_batch_worker, batch_worker, extraction_worker,
                        coordinates, next_id, all_extracted_coordinates>>]_vars

\* C9: once load_pdf has opened another document, no page_completed and no
\* batch_completed of a job started for an earlier document changes the store
\* or all_extracted_coordinates.
C9_NoNotificationOutlivesDocument ==
    [][((Handles("page_completed") \/ Handles("batch_completed"))
            /\ Head(events).pdf_path # current_pdf_path) =>
         UNCHANGED <<coordinates, all_extracted_coordinates>>]_vars

\* C10: once a job has been started, after every on_page_extraction_completed,
\* every delete_coordinate and every on_batch_extraction_completed the store
\* and all_extracted_coordinates hold the same number of regions and the same
\* set of ids.
C10_CollectionsSynchronised ==
    (/\ counters.jobs > 0
     /\ last.op \in {"page_completed", "delete_coordinate", "batch_completed"})
        => /\ Len(coordinates) = Len(all_extracted_coordinates)
           /\ Ids(coordinates) = Ids(all_extracted_coordinates)

WithoutId(cs, coord_id) == SelectSeq(cs, LAMBDA c : c.id # coord_id)

\* the step is a call of delete_coordinate
DeleteRequested ==
    last'.op = "delete_coordinate" /\ counters'.user_ops = counters.user_ops + 1

StoreCallOf(op) ==
    last'.op = op /\ counters'.store_ops = counters.store_ops + 1

\* C12: remove_coordinate and update_coordinate called with an id that is not
\* in the store return False and leave the store unchanged; after
\* remove_coordinate(id) the id is not in the store, so that removing the same
\* id again returns False.
C12_UnknownIdIsReportedFalse ==
    [][/\ (StoreCallOf("remove_coordinate") \/ StoreCallOf("update_coordinate"))
            /\ last'.id \notin Ids(coordinates)
          => ~last'.ok /\ UNCHANGED <<coordinates, next_id>>
       /\ StoreCallOf("remove_coordinate") => last'.id \notin Ids(coordinates')
       /\ (StoreCallOf("remove_coordinate") /\ last.op = "remove_coordinate"
              /\ last'.id = last.id) => ~last'.ok]_vars

\* an id the store had given out and that was removed since has just been
\* removed again, and the store still holds regions
C12_Witness ==
    /\ last.op = "remove_coordinate" /\ ~last.ok
    /\ last.id < next_id
    /\ coordinates # <<>>

\* C13: every region in the store has x1 <= x2 and y1 <= y2, whatever the
\* order in which add_coordinate, create_user_coordinate and
\* update_coordinate were given the bounds.
C13_BoundsNormalised ==
    \A i \in 1..Len(coordinates) :
        coordinates[i].x1 <= coordinates[i].x2 /\ coordinates[i].y1 <= coordinates[i].y2

\* C14: for every region in the store, after add_coordinate,
\* create_user_coordinate and update_coordinate, width = x2 - x1 and
\* height = y2 - y1.
C14_SizeIsDerived ==
    \A i \in 1..Len(coordinates) :
        /\ coordinates[i].width = coordinates[i].x2 - coordinates[i].x1
        /\ coordinates[i].height = coordinates[i].y2 - coordinates[i].y1

\* the step is a change the caller makes to what get_all_coordinates returned
CallerMutates ==
    /\ last'.op \in {"caller_list", "caller_record"}
    /\ counters'.store_ops = counters.store_ops + 1

\* C15: a change the caller makes to the value get_all_coordinates returned
\* (deleting, appending or reordering entries of the list, or setting a field
\* of a record in it) does not change the store.
C15_ReturnedValueIsACopy ==
    [][CallerMutates => UNCHANGED <<coordinates, next_id>>]_vars

\* |a - b| is within the relative tolerance 1e-6 of b
Close(a, b) == 1000000 * Abs(a - b) <= Abs(b)

\* C16: _screen_to_coord_rect applied to the result of _coord_to_screen_rect
\* returns the x1, y1, x2, y2 of the region within 1e-6 relative tolerance,
\* for every rectangle within the page, zoom and offsets.
C16_RoundTrip ==
    \A coord_dict \in pdf_label.coord_dict :
        /\ Close(coord_dict.x1, viewer_coordinates[1].x1)
        /\ Close(coord_dict.y1, viewer_coordinates[1].y1)
        /\ Close(coord_dict.x2, viewer_coordinates[1].x2)
        /\ Close(coord_dict.y2, viewer_coordinates[1].y2)

\* the step is a mouseReleaseEvent that ends a draw gesture
DrawReleased == pdf_label.drawing_new_rect /\ ~pdf_label'.drawing_new_rect

\* C17: a draw gesture whose rectangle is not more than 10 pixels wide or not
\* more than 10 pixels high (the pointer travelled less than 10 pixels on
\* that axis) emits no new_rectangle_created and leaves the store, the
\* accumulator and the displayed list unchanged.
C17_SmallDrawIsDiscarded ==
    [][(DrawReleased /\
          (\/ Abs(pdf_label.current_pos[1] - pdf_label.start_pos[1]) < MinDrawSize
           \/ Abs(pdf_label.current_pos[2] - pdf_label.start_pos[2]) < MinDrawSize))
         => /\ ~last'.ok
            /\ UNCHANGED <<coordinates, next_id, all_extracted_coordinates,
                           viewer_coordinates>>]_vars

\* on a page with a pixmap, a gesture wide enough but 9 pixels high has just
\* been discarded, after an earlier gesture had created a region
C17_Witness ==
    /\ last.op = "mouse_release" /\ ~last.ok
    /\ pdf_label.pixmap_height # 0
    /\ Abs(pdf_label.current_pos[1] - pdf_label.start_pos[1]) > MinDrawSize
    /\ Abs(pdf_label.current_pos[2] - pdf_label.start_pos[2]) = MinDrawSize - 1
    /\ coordinates # <<>>

\* the machine-detected regions of page q in cs whose bounds the user has set
\* by a move, a resize or the editor panel
EditedOn(cs, q) ==
    SelectSeq(MachineOn(cs, q),
              LAMBDA c : \E i \in 1..Len(ledger.edited[q]) :
                             ledger.edited[q][i] = Rect(c))

\* C18: when pages are extracted again, every machine-detected region that
\* the user has moved, resized or edited is still in the store, on its page and
\* with the bounds the user gave it, after each on_page_extraction_completed
\* and after on_batch_extraction_completed.
C18_EditedRegionPreserved ==
    [][(Handles("page_completed") \/ Handles("batch_completed")) =>
         \A q \in Pages0 :
             LET after == Rects(GetCoordinatesForPage(coordinates', q))
             IN \A i \in 1..Len(EditedOn(coordinates, q)) :
                    \E j \in 1..Len(after) :
                        after[j] = Rect(EditedOn(coordinates, q)[i])]_vars

\* the job of worker k ran to the end of its range, was the last job started,
\* was started with no notification waiting, every notification of it has been
\* handled and no gesture was made since it was started
CompletedAlone(k) ==
    /\ W(k).outcome = "completed"
    /\ W(k).quiet
    /\ W(k).job = counters.jobs
    /\ W(k).pre_ops = counters.user_ops
    /\ W(k).pdf_path = current_pdf_path
    /\ Quiescent

\* the pages of the chunks whose extraction call failed: the pages of the
\* range of a job that ran to its end for which no page_completed was emitted
FailedPages(w) == {p \in w.start_page..w.end_page : p \notin w.emitted}

\* C19: at the end of a job, after on_batch_extraction_completed, the store
\* holds for every page of a chunk whose extraction call failed exactly the
\* regions the page had before the job was started.
C19_FailedChunkKeepsRegions ==
    \A k \in WorkerKinds :
        CompletedAlone(k) =>
            \A p \in FailedPages(W(k)) :
                SameBag(Keys(GetCoordinatesForPage(coordinates, p - 1)),
                        Keys(GetCoordinatesForPage(W(k).pre, p - 1)))

\* the chunks the worker requested are the chunks of its range, in order
RequestedInOrder(w) ==
    /\ w.requested # <<>>
    /\ w.requested[1].first = w.start_page
    /\ w.requested[Len(w.requested)].last = w.end_page
    /\ \A i \in 1..Len(w.requested) :
           /\ w.requested[i].last =
                  Min(w.requested[i].first + w.batch_size - 1, w.end_page)
           /\ i > 1 => w.requested[i].first = w.requested[i - 1].last + 1

\* run() of worker k has returned after its loop with no stop requested, and
\* the extraction call had failed for one chunk at least
EndedAfterFailure(k) ==
    /\ W(k).pc = "done" /\ W(k).outcome # "failed" /\ ~W(k).should_stop
    /\ \E i \in 1..Len(W(k).requested) : ~W(k).requested[i].ok

\* C20: a job in which the extraction call failed for a chunk, and which no
\* stop was requested for, has requested every chunk of its range in order,
\* has emitted page_completed for every page of the chunks that were read
\* (each is handled, or waits to be handled, by on_page_extraction_completed)
\* and has emitted batch_completed.
C20_FailedChunkDoesNotEndJob ==
    \A k \in WorkerKinds :
        EndedAfterFailure(k) =>
            /\ RequestedInOrder(W(k))
            /\ W(k).outcome = "completed"
            /\ \A i \in 1..Len(W(k).requested) :
                   W(k).requested[i].ok =>
                       \A p \in W(k).requested[i].first..W(k).requested[i].last :
                           p \in W(k).emitted

\* the call failed for the first chunk of a job, the second chunk was read,
\* and all the job's notifications have been handled, batch_completed last
C20_Witness ==
    /\ EndedAfterFailure("custom")
    /\ Len(custom_batch_worker.requested) = 2
    /\ ~custom_batch_worker.requested[1].ok
    /\ custom_batch_worker.requested[2].ok
    /\ Reconciled(custom_batch_worker) = {2}
    /\ events = <<>>
    /\ last.op = "batch_completed"
    /\ coordinates # <<>>

\* the job of worker k was the last job started, was started with no
\* notification waiting, and no gesture was made since it was started
Alone(k) ==
    /\ W(k).quiet
    /\ W(k).job = counters.jobs
    /\ W(k).pre_ops = counters.user_ops
    /\ W(k).pdf_path = current_pdf_path

\* a notification of the job of worker k with the signal sig is waiting
Waiting(k, sig) ==
    \E i \in 1..Len(events) :
        events[i].job = W(k).job /\ events[i].sig = sig

\* the job of worker k has failed (run() returned before its while loop) with
\* no page_completed and no batch_completed, and the store is what it was
\* when the job was started
FailedCleanly(k) ==
    W(k).outcome = "failed" =>
        /\ W(k).emitted = {}
        /\ ~Waiting(k, "page_completed") /\ ~Waiting(k, "batch_completed")
        /\ Alone(k) => coordinates = W(k).pre

\* C21: when the page count of the document cannot be determined (fitz.open
\* raises) the job emits error_occurred in the step in which it fails; a
\* failed job has emitted no page_completed and no batch_completed, and the
\* store is exactly as it was before the job.
C21_FatalErrorLeavesStore ==
    [][\A k \in WorkerKinds :
           /\ (W(k).outcome = "running" /\ W(k).pc = "start"
                   /\ W(k)'.outcome = "failed")
                  => events' = Append(events, ErrorOccurredMsg(k, W(k)))
           /\ FailedCleanly(k)']_vars

\* a job started on a store that held a region has failed and its error
\* notification has been handled
C21_Witness ==
    /\ custom_batch_worker.outcome = "failed"
    /\ Alone("custom")
    /\ custom_batch_worker.pre # <<>>
    /\ last.op = "error_reported"
    /\ events = <<>>


\* the notifications appended to the queue by the step
Emitted == SubSeq(events', Len(events) + 1, Len(events'))

\* C22: after stop() was called on a running job the worker emits no further
\* page_completed and no batch_completed, and when its run() returns without
\* a failure it emits a cancelled notification, distinct from batch_completed
\* and error_occurred.
C22_CancellationIsReported ==
    [][\A k \in WorkerKinds :
           (IsRunning(W(k)) /\ W(k).should_stop /\ Len(events') >= Len(events)) =>
               /\ \A i \in 1..Len(Emitted) :
                      Emitted[i].worker = k =>
                          Emitted[i].sig \notin {"page_completed", "batch_completed"}
               /\ (~IsRunning(W(k)') /\ W(k)'.outcome # "failed") =>
                      \E i \in 1..Len(Emitted) :
                          /\ Emitted[i].worker = k
                          /\ Emitted[i].sig = "cancelled"]_vars


\* the pages of the chunks the worker requested
RequestedPages(w) ==
    {p \in 0..NumPages + 1 :
         \E i \in 1..Len(w.requested) :
             w.requested[i].first <= p /\ p <= w.requested[i].last}

\* C23: a range job constructed with start_page > end_page is not rejected:
\* when its run() has returned, with the document opened and no stop
\* requested, it has emitted batch_completed and has requested the pages from
\* end_page to start_page.
C23_ReversedRangeIsSwapped ==
    LET w == custom_batch_worker IN
    (/\ w.pc = "done" /\ w.total_pages > 0 /\ ~w.should_stop
     /\ w.range[1] > w.range[2] /\ w.range[2] >= 1) =>
        /\ w.outcome = "completed"
        /\ \A p \in w.range[2]..Min(w.range[1], w.total_pages) :
               p \in RequestedPages(w)


\* run() of worker k has returned after its while loop with no stop requested
RanToEnd(k) == W(k).pc = "done" /\ W(k).outcome = "completed"

\* C24: the worker calls the extraction service with the consecutive ranges
\* [s, min(s + batch_size - 1, E)], E being the smaller of end_page and the
\* page count, in ascending order from start_page, and requests no page
\* outside [start_page, E]; when it has run to the end of its range every
\* page of [start_page, E] is in exactly one requested range.
C24_ChunkPartition ==
    \A k \in WorkerKinds :
        LET w == W(k)
            start == IF k = "custom" THEN Max(w.range[1], 1) ELSE 1
            E == IF k = "custom" /\ w.range[2] # 0
                 THEN Min(w.range[2], PageCount(w.pdf_path))
                 ELSE PageCount(w.pdf_path)
        IN /\ \A i \in 1..Len(w.requested) :
                  /\ w.requested[i].first =
                         IF i = 1 THEN start ELSE w.requested[i - 1].last + 1
                  /\ w.requested[i].last =
                         Min(w.requested[i].first + w.batch_size - 1, E)
                  /\ w.requested[i].first <= w.requested[i].last
           /\ RanToEnd(k) =>
                  /\ w.requested[Len(w.requested)].last = E
                  /\ \A p \in 0..NumPages + 1 :
                         Cardinality({i \in 1..Len(w.requested) :
                                          /\ w.requested[i].first <= p
                                          /\ p <= w.requested[i].last})
                             = IF start <= p /\ p <= E THEN 1 ELSE 0

\* a range job over the whole of a document of more than one page, given an
\* end_page beyond the document, has run to its end in chunks of one page
C24_Witness ==
    /\ RanToEnd("custom")
    /\ custom_batch_worker.range = <<1, NumPages + 1>>
    /\ custom_batch_worker.batch_size = 1
    /\ Len(custom_batch_worker.requested) = NumPages
    /\ NumPages > 1


\* C25: within one job the page_completed notifications are emitted in
\* strictly ascending page order, at most one for a page, the chunks are
\* requested in ascending order, and batch_completed is emitted at most once
\* and after every page_completed of the job.
C25_NotificationsInOrder ==
    /\ \A i, j \in 1..Len(events) :
           (i < j /\ events[i].job = events[j].job) =>
               /\ (events[i].sig = "page_completed" /\ events[j].sig = "page_completed")
                      => events[i].page_number < events[j].page_number
               /\ events[i].sig = "batch_completed"
                      => events[j].sig \notin {"page_completed", "batch_completed"}
    /\ \A k \in WorkerKinds :
           \A i \in 2..Len(W(k).requested) :
               W(k).requested[i - 1].last < W(k).requested[i].first

\* a job has emitted page_completed for two pages, read in two chunks, and
\* then batch_completed
C25_Witness ==
    /\ Len(events) = 3
    /\ events[1].sig = "page_completed" /\ events[2].sig = "page_completed"
    /\ events[3].sig = "batch_completed"
    /\ events[1].job = events[3].job /\ events[2].job = events[3].job
    /\ Len(custom_batch_worker.requested) = 2


\* C26: every progress_updated(k, n) of a range job has for n the number of
\* pages of the range and for k the number of pages of the job for which
\* page_completed has been emitted so far, with 1 <= k <= n and k strictly
\* increasing, also when the extraction call of an earlier chunk failed.
C26_ProgressCountsPages ==
    LET w == custom_batch_worker IN
    \A i \in 1..Len(w.progress) :
        /\ w.progress[i][2] = w.end_page - w.start_page + 1
        /\ w.progress[i][1] = i
        /\ 1 <= w.progress[i][1] /\ w.progress[i][1] <= w.progress[i][2]
        /\ i > 1 => w.progress[i - 1][1] < w.progress[i][1]



\* the screen rectangle of the draw gesture in progress and its conversion
DrawnRect == Normalized(pdf_label.start_pos, pdf_label.current_pos)
DrawnBounds ==
    LET d == ScreenToCoordRect(pdf_label, DrawnRect,
                               pdf_label.x_offset, pdf_label.y_offset)
    IN <<Min(d.x1, d.x2), Min(d.y1, d.y2), Max(d.x1, d.x2), Max(d.y1, d.y2)>>

\* C27: a draw gesture released on a page image with a rectangle more than 10
\* pixels wide and high adds exactly one region to the store: the regions
\* already there are unchanged, and the new one has a fresh id, the page the
\* viewer shows, user_created = true, accuracy = 100.0 and, as its bounds,
\* the normalised conversion of the drawn screen rectangle to PDF space.
C27_DrawAddsOneRegion ==
    [][(/\ DrawReleased
        /\ pdf_label.pixmap_height # 0
        /\ DrawnRect.width > MinDrawSize /\ DrawnRect.height > MinDrawSize)
         => /\ Len(coordinates') = Len(coordinates) + 1
            /\ SubSeq(coordinates', 1, Len(coordinates)) = coordinates
            /\ LET c == coordinates'[Len(coordinates')] IN
               /\ c.id \notin Ids(coordinates)
               /\ c.page = pdf_label.current_page
               /\ c.user_created
               /\ c.accuracy = 100
               /\ Rect(c) = DrawnBounds
               /\ c.x1 <= c.x2 /\ c.y1 <= c.y2]_vars

\* a second region has just been drawn, on the second page, while the first
\* one is on the first page
C27_Witness ==
    /\ last.op = "mouse_release" /\ last.ok
    /\ pdf_label.current_page = 1
    /\ Len(coordinates) = 2
    /\ coordinates[1].page = 0 /\ coordinates[2].page = 1
    /\ coordinates[2].accuracy = 100


\* a rectangle is held by the pointer, for a move or a resize
InDrag == pdf_label.moving_rect \/ pdf_label.resizing_rect

\* C28: between the press on a displayed region or on one of its handles and
\* the release, that is across every mouseMoveEvent of the gesture, the store
\* is left as it was; only the release changes it.
C28_StoreUnchangedDuringDrag ==
    [][(InDrag /\ InDrag') => UNCHANGED coordinates]_vars


\* the step is a mouseMoveEvent that moves the selected rectangle: its
\* displayed bounds before and after
MovedFrom == viewer_coordinates[FirstIndexOf(viewer_coordinates,
                                             pdf_label.selected_rect_id, 1)]
MovedTo == viewer_coordinates'[FirstIndexOf(viewer_coordinates',
                                            pdf_label.selected_rect_id, 1)]
MoveStep ==
    /\ pdf_label.moving_rect /\ pdf_label'.moving_rect
    /\ pdf_label'.start_pos # pdf_label.start_pos
    /\ pdf_label.selected_rect_id \in Ids(PageCoords)

\* C29: a pointer move of (dx, dy) pixels while a region is moved shifts x1
\* and x2 by dx / (2 * zoom) and y1 and y2 by -dy / (2 * zoom); the region
\* keeps its width and its height and none of its bounds is negative.
C29_MoveShiftsRegion ==
    [][MoveStep =>
         LET dx == ToPdf(pdf_label, pdf_label'.start_pos[1] - pdf_label.start_pos[1])
             dy == ToPdf(pdf_label, pdf_label'.start_pos[2] - pdf_label.start_pos[2])
         IN /\ MovedTo.x1 = MovedFrom.x1 + dx /\ MovedTo.x2 = MovedFrom.x2 + dx
            /\ MovedTo.y1 = MovedFrom.y1 - dy /\ MovedTo.y2 = MovedFrom.y2 - dy
            /\ MovedTo.x2 - MovedTo.x1 = MovedFrom.x2 - MovedFrom.x1
            /\ MovedTo.y2 - MovedTo.y1 = MovedFrom.y2 - MovedFrom.y1
            /\ MovedTo.x1 >= 0 /\ MovedTo.y1 >= 0
            /\ MovedTo.x2 >= 0 /\ MovedTo.y2 >= 0]_vars


\* the step is a mouseMoveEvent that resizes the selected rectangle
ResizeStep ==
    /\ pdf_label.resizing_rect /\ pdf_label'.resizing_rect
    /\ last'.op = "mouse_move" /\ counters' # counters
    /\ pdf_label.selected_rect_id \in Ids(PageCoords)

\* C30: a pointer move while a handle is held changes only the bounds of the
\* handle (left handles x1, right handles x2, top handles y2, bottom handles
\* y1); the other bounds keep their values, and a bound that is dragged ends
\* at least 10 PDF points from the opposite bound, on its own side of it.
C30_ResizeChangesSelectedBounds ==
    [][ResizeStep =>
         LET h == pdf_label.resize_handle IN
         /\ h \notin {"tl", "l", "bl"} => MovedTo.x1 = MovedFrom.x1
         /\ h \notin {"tr", "r", "br"} => MovedTo.x2 = MovedFrom.x2
         /\ h \notin {"tl", "t", "tr"} => MovedTo.y2 = MovedFrom.y2
         /\ h \notin {"bl", "b", "br"} => MovedTo.y1 = MovedFrom.y1
         /\ h \in {"tl", "l", "bl", "tr", "r", "br"}
                => MovedTo.x2 - MovedTo.x1 >= MinResizeSize * Unit
         /\ h \in {"tl", "t", "tr", "bl", "b", "br"}
                => MovedTo.y2 - MovedTo.y1 >= MinResizeSize * Unit]_vars

\* the left handle of a region has been dragged to the right of its right
\* bound, and the region is 10 points wide
C30_Witness ==
    /\ pdf_label.resizing_rect /\ pdf_label.resize_handle = "l"
    /\ last.op = "mouse_move"
    /\ \E i \in 1..Len(coordinates) :
          /\ coordinates[i].id = pdf_label.selected_rect_id
          /\ coordinates[i].x2 - coordinates[i].x1 = MinResizeSize * Unit


\* C31: the UI thread is never inside a call that returns only when a worker
\* thread has finished: no UI operation, stop_extraction included, leaves it
\* waiting for a worker whose run() has not returned.
C31_UIThreadNeverWaits ==
    /\ ui_pc = "wait_custom" => ~IsRunning(custom_batch_worker)
    /\ ui_pc = "wait_batch" => ~IsRunning(batch_worker)


\* the job of worker k that ended before the present one was stopped: its
\* page_completed is still queued, and no batch_completed and no
\* error_occurred of it follows
EarlierJobCancelled(k) ==
    /\ \E i \in 1..Len(events) :
          /\ events[i].worker = k /\ events[i].job < W(k).job
          /\ events[i].sig = "page_completed"
    /\ \A i \in 1..Len(events) :
          (events[i].worker = k /\ events[i].job < W(k).job)
              => events[i].sig = "page_completed"

\* C32: a job is started only when the worker's earlier job has ended
\* (completed, cancelled or failed) or there was none, and it starts with the
\* stop flag clear; the flag of a job is set only by stop_extraction while
\* that job runs, so that a job ends cancelled only for a stop requested
\* during it.
C32_NewJobStartsClean ==
    [][\A k \in WorkerKinds :
         /\ W(k)'.job # W(k).job
              => /\ W(k).outcome \in {"none", "completed", "cancelled", "failed"}
                 /\ IsRunning(W(k)') /\ W(k)'.pc = "start"
                 /\ ~W(k)'.should_stop
         /\ (W(k)'.should_stop /\ ~W(k).should_stop)
              => /\ W(k)'.job = W(k).job
                 /\ IsRunning(W(k))
                 /\ last'.op \in {"stop_extraction", "stop_resume"}
         /\ (W(k)'.outcome = "cancelled" /\ W(k).outcome # "cancelled")
              => W(k).should_stop]_vars

\* the second range job has run to completion after the first was stopped
C32_Witness ==
    /\ custom_batch_worker.job = 2
    /\ custom_batch_worker.outcome = "completed"
    /\ ~custom_batch_worker.should_stop
    /\ custom_batch_worker.emitted # {}
    /\ EarlierJobCancelled("custom")


\* C33: when on_batch_extraction_completed has handled the end of a range job
\* over the pages s..e that ran to completion, with no gesture and no other
\* job in between, the store holds for every page outside s..e exactly the
\* regions, machine-detected and user-created, the page had when the job was
\* started.
C33_PagesOutsideRangeUntouched ==
    CompletedAlone("custom") =>
        \A p \in Pages1 \ (custom_batch_worker.start_page..custom_batch_worker.end_page) :
            SameBag(Keys(GetCoordinatesForPage(coordinates, p - 1)),
                    Keys(GetCoordinatesForPage(custom_batch_worker.pre, p - 1)))


\* C34: every region delivered by a page_completed(p, regions) notification
\* is on the page that on_page_extraction_completed selects with p when it
\* captures and removes the store's regions of the page.
C34_NotificationSelectsItsPage ==
    \A i \in 1..Len(events) :
        events[i].sig = "page_completed" =>
            \A j \in 1..Len(events[i].coordinates) :
                SelectsPage(events[i].coordinates[j], events[i].page_number)


\* what _screen_to_coord_rect gives for the screen y of pos: the top of a
\* rectangle whose top left corner is pos
ConvertedY(pos) ==
    ScreenToCoordRect(pdf_label, QRect(pos[1], pos[2], 1, 1),
                      pdf_label.x_offset, pdf_label.y_offset).y2

\* C35: while a handle is held, at every zoom and for every pointer position,
\* the PDF-space y the resize branch of mouseMoveEvent computes is the one
\* _screen_to_coord_rect computes for the same screen y: page_height -
\* (y - y_offset) / (2 * zoom), with page_height half the pixmap's height.
C35_ResizeYIsConvertedY ==
    pdf_label.resizing_rect =>
        \A pos \in DragPositions :
            /\ PdfY(pdf_label, pos) = ConvertedY(pos)
            /\ ConvertedY(pos) = ActualPageHeight(pdf_label)
                                     - ToPdf(pdf_label, pos[2] - pdf_label.y_offset)


\* C36: whenever no job runs and no notification waits, after any sequence
\* of jobs, reconciliations, draw and delete gestures, the coordinate list of
\* current_session, which save_session writes, holds exactly the regions of
\* the store: the same pages, bounds and user_created flags, one record for
\* each region of the store.
C36_SessionHoldsStore ==
    (Quiescent /\ current_pdf_path # NoPath) =>
        SameBag(Keys(current_session), Keys(coordinates))


\* C37: when load_pdf has opened a document and no handler has run since,
\* the list update_coordinates_display would hand to the viewer and the list
\* export_table_images would export hold no region: none of those extracted
\* or created for the document open before.
C37_NewDocumentHasNoRegions ==
    (last.op = "load_pdf" /\ counters.loads > 1) =>
        /\ UpdateCoordinatesDisplay(MW).viewer_coordinates = <<>>
        /\ MergeById(MergeById(<<>>, coordinates), all_extracted_coordinates) = <<>>


\* C38: when on_extraction_finished has handled the result of
\* extract_current_page for a page, every region the store held on another
\* page, and every user_created region it held on any page, is still in the
\* store.
C38_CurrentPageExtractionKeepsOthers ==
    [][Handles("finished") =>
         LET q == Head(events).page_number - 1
             kept == SelectSeq(coordinates,
                               LAMBDA c : c.page # q \/ c.user_created)
         IN SubBag(Keys(kept), Keys(coordinates'))]_vars


\* C39: a started batch job always terminates: whatever range and batch size
\* the worker was constructed with, and whether or not a stop is requested,
\* once the thread runs and every extraction call returns or raises, run()
\* ends and the job is completed, cancelled or failed.
Terminated(k) ==
    ~IsRunning(W(k)) /\ W(k).outcome \in {"completed", "cancelled", "failed"}

====
